---- MODULE Spec2Model ----
(***************************************************************************)
(* MCP tool-server configuration of dspy-forge's UI.                       *)
(*                                                                         *)
(*   LMConfigContext.tsx  the committed global configuration and its       *)
(*                        localStorage blob                                *)
(*   LMConfigModal.tsx    the global configuration dialog: a draft server  *)
(*                        list, tool catalogs, loading flags               *)
(*   ModuleNode.tsx       one editor per workflow node: local servers,     *)
(*                        selections, catalogs, and the saved node data    *)
(*                                                                         *)
(* Strings the user types are sequences of one-character strings, so that  *)
(* String.prototype.trim is computed.  A JavaScript object used as a map   *)
(* (Record<string, T>) is a function whose DOMAIN is the set of its keys;  *)
(* a key that is not in the DOMAIN reads as undefined.  A tool descriptor  *)
(* {name, description} is represented by its name.                         *)
(***************************************************************************)
EXTENDS Integers, Sequences, FiniteSets, TLC

\* ------------------------------------------------------------------------
\* Bounds and input sets
\* ------------------------------------------------------------------------

\* Largest number of catalog requests that are in flight in one scope.
MaxInFlight == 2

UrlA == <<"a">>
UrlB == <<"b">>
Urls == {UrlA, UrlB}

\* What the user can type into the "add server" input.
InputTexts == {UrlA, UrlB, <<" ", "a">>, <<"a", " ">>, <<" ">>, <<>>}

Tools == {"x", "y"}

\* The tool lists the discovery endpoint can return for a server.
Catalogs == {<<>>, <<"x">>, <<"x", "y">>}

\* Outcomes of one request to /api/v1/mcp/tools.
Responses ==
    [kind : {"ok"}, tools : Catalogs]
        \cup [kind : {"notok", "error", "malformed"}, tools : {<<>>}]

NullLM == [null |-> TRUE]
LMForms == { [provider |-> "openai", modelName |-> <<"m">>],
             [provider |-> "openai", modelName |-> <<" ">>] }

Nodes == {"n1", "n2"}

\* ------------------------------------------------------------------------
\* JavaScript helpers
\* ------------------------------------------------------------------------

RECURSIVE TrimStart(_)
TrimStart(s) == IF s # <<>> /\ Head(s) = " " THEN TrimStart(Tail(s)) ELSE s

RECURSIVE TrimEnd(_)
TrimEnd(s) ==
    IF s # <<>> /\ s[Len(s)] = " " THEN TrimEnd(SubSeq(s, 1, Len(s) - 1)) ELSE s

Trim(s) == TrimEnd(TrimStart(s))

Includes(s, e) == \E i \in 1..Len(s) : s[i] = e

Without(s, e) == SelectSeq(s, LAMBDA v : v # e)

Put(m, k, v) == [x \in DOMAIN m \cup {k} |-> IF x = k THEN v ELSE m[x]]

Del(m, k) == [x \in DOMAIN m \ {k} |-> m[x]]

EmptyMap == [x \in {} |-> <<>>]

UrlsOf(servers) == [i \in 1..Len(servers) |-> servers[i].url]

Range(s) == {s[i] : i \in 1..Len(s)}

\* ------------------------------------------------------------------------
\* Catalog requests in flight.  The code holds them as pending promises of
\* fetchToolsForServer; per url the model keeps whether the most recently
\* started request is still pending, and how many older ones are.
\* ------------------------------------------------------------------------

NoFetches == [u \in Urls |-> [stale |-> 0, latest |-> FALSE]]

InFlight(p, u) == p[u].stale + (IF p[u].latest THEN 1 ELSE 0)

RECURSIVE SumInFlight(_, _)
SumInFlight(p, us) ==
    IF us = {} THEN 0
    ELSE LET u == CHOOSE v \in us : TRUE
         IN  InFlight(p, u) + SumInFlight(p, us \ {u})

TotalInFlight(p) == SumInFlight(p, Urls)

Request(p, u) == [p EXCEPT ![u] = [stale |-> InFlight(p, u), latest |-> TRUE]]

Settle(p, u, which) ==
    IF which = "latest"
    THEN [p EXCEPT ![u].latest = FALSE]
    ELSE [p EXCEPT ![u].stale = @ - 1]

CanSettle(p, u, which) ==
    IF which = "latest" THEN p[u].latest ELSE p[u].stale > 0

VARIABLES
    \* LMConfigContext.tsx
    mounted,            \* the provider's mount effect has run
    globalLMConfig,
    mcpServers,         \* committed global servers: <<[url, selectedTools]>>
    storage,            \* localStorage['dspy-forge-global-config']
    refreshPending,     \* a refreshProviderStatus request is outstanding
    uncaughtError,      \* an exception of setItem has left an event handler
    \* LMConfigModal.tsx
    isOpen,
    localMCPServers,    \* the draft
    draftIsCommitted,   \* localMCPServers is the very array held in mcpServers
    availableTools,
    loadingTools,
    pendingFetches,
    \* ModuleNode.tsx, one instance per node
    nodeMcpServers,
    nodeSelectedTools,
    nodeAvailableTools,
    nodeLoadingTools,
    nodePendingFetches,
    useGlobalMcpServers,
    nodeData            \* node.data as written by setNodes

contextVars == <<mounted, globalLMConfig, mcpServers, storage, refreshPending,
                 uncaughtError>>
modalVars == <<isOpen, localMCPServers, draftIsCommitted, availableTools,
               loadingTools, pendingFetches>>
nodeDraftVars == <<nodeMcpServers, nodeSelectedTools, nodeAvailableTools,
                   nodeLoadingTools, nodePendingFetches, useGlobalMcpServers>>
nodeVars == <<nodeDraftVars, nodeData>>
vars == <<contextVars, modalVars, nodeVars>>


\* ------------------------------------------------------------------------
\* LMConfigModal.tsx: the handlers as functions of the dialog's state
\* ------------------------------------------------------------------------

Modal ==
    [ localMCPServers  |-> localMCPServers,
      draftIsCommitted |-> draftIsCommitted,
      availableTools   |-> availableTools,
      loadingTools     |-> loadingTools,
      pendingFetches   |-> pendingFetches ]

\* fetchToolsForServer up to its await: the loading flag and the request.
Modal_fetchToolsForServer(M, serverUrl) ==
    [M EXCEPT !.loadingTools = Put(@, serverUrl, TRUE),
              !.pendingFetches = Request(@, serverUrl)]

\* Modal_fetchSettled writing the loading flags without the other urls' flags.
Modal_fetchSettled_resetsLoading(M, serverUrl, which, resp) ==
    [M EXCEPT !.availableTools =
                  IF resp.kind = "ok" THEN Put(@, serverUrl, resp.tools) ELSE @,
              !.loadingTools = Put(EmptyMap, serverUrl, FALSE),
              !.pendingFetches = Settle(@, serverUrl, which)]


\* fetchToolsForServer after its await: try / catch / finally.
Modal_fetchSettled(M, serverUrl, which, resp) ==
    [M EXCEPT !.availableTools =
                  IF resp.kind = "ok" THEN Put(@, serverUrl, resp.tools) ELSE @,
              !.loadingTools = Put(@, serverUrl, FALSE),
              !.pendingFetches = Settle(@, serverUrl, which)]

\* Modal_addMCPServer with the duplicate test on the text as typed.
Modal_addMCPServer_rawTest(M, newServerUrl) ==
    LET serverUrl == Trim(newServerUrl)
    IN  IF /\ serverUrl # <<>>
           /\ ~\E i \in 1..Len(M.localMCPServers) :
                  M.localMCPServers[i].url = newServerUrl
        THEN Modal_fetchToolsForServer(
                 [M EXCEPT !.localMCPServers =
                               Append(@, [url |-> serverUrl, selectedTools |-> <<>>]),
                           !.draftIsCommitted = FALSE],
                 serverUrl)
        ELSE M

\* Modal_addMCPServer storing the url as typed.
Modal_addMCPServer_storesRaw(M, newServerUrl) ==
    LET serverUrl == Trim(newServerUrl)
    IN  IF /\ serverUrl # <<>>
           /\ ~\E i \in 1..Len(M.localMCPServers) :
                  M.localMCPServers[i].url = serverUrl
        THEN Modal_fetchToolsForServer(
                 [M EXCEPT !.localMCPServers =
                               Append(@, [url |-> newServerUrl,
                                          selectedTools |-> <<>>]),
                           !.draftIsCommitted = FALSE],
                 serverUrl)
        ELSE M

\* Modal_addMCPServer putting the new server first.
Modal_addMCPServer_prepend(M, newServerUrl) ==
    LET serverUrl == Trim(newServerUrl)
    IN  IF /\ serverUrl # <<>>
           /\ ~\E i \in 1..Len(M.localMCPServers) :
                  M.localMCPServers[i].url = serverUrl
        THEN Modal_fetchToolsForServer(
                 [M EXCEPT !.localMCPServers =
                               <<[url |-> serverUrl, selectedTools |-> <<>>]>> \o @,
                           !.draftIsCommitted = FALSE],
                 serverUrl)
        ELSE M


Modal_addMCPServer(M, newServerUrl) ==
    LET serverUrl == Trim(newServerUrl)
    IN  IF /\ serverUrl # <<>>
           /\ ~\E i \in 1..Len(M.localMCPServers) :
                  M.localMCPServers[i].url = serverUrl
        THEN Modal_fetchToolsForServer(
                 [M EXCEPT !.localMCPServers =
                               Append(@, [url |-> serverUrl, selectedTools |-> <<>>]),
                           !.draftIsCommitted = FALSE],
                 serverUrl)
        ELSE M

\* Modal_removeMCPServer with the filter's test inverted.
Modal_removeMCPServer_inverted(M, serverUrl) ==
    [M EXCEPT !.localMCPServers = SelectSeq(@, LAMBDA s : s.url = serverUrl),
              !.draftIsCommitted = FALSE,
              !.availableTools = Del(@, serverUrl)]


Modal_removeMCPServer(M, serverUrl) ==
    [M EXCEPT !.localMCPServers = SelectSeq(@, LAMBDA s : s.url # serverUrl),
              !.draftIsCommitted = FALSE,
              !.availableTools = Del(@, serverUrl)]

\* prev.map(server => server.url === serverUrl ? {...server, selectedTools} : server)
WithSelected(servers, i, serverUrl, selectedTools) ==
    IF servers[i].url = serverUrl
    THEN [servers[i] EXCEPT !.selectedTools = selectedTools]
    ELSE servers[i]

Modal_toggleToolSelection(M, serverUrl, toolName) ==
    [M EXCEPT !.localMCPServers =
                  [i \in 1..Len(@) |->
                      WithSelected(@, i, serverUrl,
                          IF Includes(@[i].selectedTools, toolName)
                          THEN Without(@[i].selectedTools, toolName)
                          ELSE Append(@[i].selectedTools, toolName))],
              !.draftIsCommitted = FALSE]

\* Modal_selectAllTools adding the catalog's names to the names selected.
Modal_selectAllTools_adds(M, serverUrl) ==
    LET tools == IF serverUrl \in DOMAIN M.availableTools
                 THEN M.availableTools[serverUrl] ELSE <<>>
    IN  [M EXCEPT !.localMCPServers =
                      [i \in 1..Len(@) |->
                          WithSelected(@, i, serverUrl, @[i].selectedTools \o tools)],
                  !.draftIsCommitted = FALSE]


Modal_selectAllTools(M, serverUrl) ==
    LET tools == IF serverUrl \in DOMAIN M.availableTools
                 THEN M.availableTools[serverUrl] ELSE <<>>
    IN  [M EXCEPT !.localMCPServers =
                      [i \in 1..Len(@) |-> WithSelected(@, i, serverUrl, tools)],
                  !.draftIsCommitted = FALSE]

\* Modal_deselectAllTools with the url test inverted.
Modal_deselectAllTools_inverted(M, serverUrl) ==
    [M EXCEPT !.localMCPServers =
                  [i \in 1..Len(@) |->
                      IF @[i].url # serverUrl
                      THEN [@[i] EXCEPT !.selectedTools = <<>>]
                      ELSE @[i]],
              !.draftIsCommitted = FALSE]


Modal_deselectAllTools(M, serverUrl) ==
    [M EXCEPT !.localMCPServers =
                  [i \in 1..Len(@) |-> WithSelected(@, i, serverUrl, <<>>)],
              !.draftIsCommitted = FALSE]

\* mcpServers.forEach(server => { if (server.url) fetchToolsForServer(server.url) })
RECURSIVE Modal_fetchEach(_, _)
Modal_fetchEach(M, servers) ==
    IF servers = <<>> THEN M
    ELSE Modal_fetchEach(
             IF Head(servers).url # <<>>
             THEN Modal_fetchToolsForServer(M, Head(servers).url)
             ELSE M,
             Tail(servers))

\* The effect on [globalLMConfig, availableProviders, mcpServers]: it runs when
\* one of the three is a new value, with the context's server list.
Modal_useEffect(M, servers) ==
    Modal_fetchEach([M EXCEPT !.localMCPServers = servers,
                              !.draftIsCommitted = TRUE],
                    servers)

\* What the dialog renders for a server (LMConfigModal.tsx lines 333, 367-409).
Modal_hasTools(M, serverUrl) ==
    /\ serverUrl \in DOMAIN M.availableTools
    /\ Len(M.availableTools[serverUrl]) > 0

Modal_isLoading(M, serverUrl) ==
    /\ serverUrl \in DOMAIN M.loadingTools
    /\ M.loadingTools[serverUrl]

Modal_showsTools(M, serverUrl) ==
    /\ \E i \in 1..Len(M.localMCPServers) : M.localMCPServers[i].url = serverUrl
    /\ ~Modal_isLoading(M, serverUrl)
    /\ Modal_hasTools(M, serverUrl)

\* A tool's checkbox is rendered for a listed server that is not loading, one
\* checkbox per tool of its non-empty catalog.
Modal_offersTool(M, serverUrl, toolName) ==
    /\ Modal_showsTools(M, serverUrl)
    /\ Includes(M.availableTools[serverUrl], toolName)

\* Modal_toolCheckbox calling the handler whether or not a checkbox is rendered.
Modal_toolCheckbox_unguarded(M, serverUrl, toolName) ==
    Modal_toggleToolSelection(M, serverUrl, toolName)


\* The checkbox of a tool: onChange calls toggleToolSelection; where no
\* checkbox is rendered there is nothing that calls it.
Modal_toolCheckbox(M, serverUrl, toolName) ==
    IF Modal_offersTool(M, serverUrl, toolName)
    THEN Modal_toggleToolSelection(M, serverUrl, toolName)
    ELSE M

SetModal(M) ==
    /\ localMCPServers' = M.localMCPServers
    /\ draftIsCommitted' = M.draftIsCommitted
    /\ availableTools' = M.availableTools
    /\ loadingTools' = M.loadingTools
    /\ pendingFetches' = M.pendingFetches

WithinBound(p) == TotalInFlight(p) <= MaxInFlight

\* ------------------------------------------------------------------------
\* LMConfigContext.tsx
\* ------------------------------------------------------------------------

\* The stored item: absent (getItem returns null; the empty string reads the
\* same, "if (stored)"), a text that is not JSON, or a JSON text, which is
\* represented by its syntax tree.
Absent == [kind |-> "absent"]
Garbage == [kind |-> "garbage"]
Json(value) == [kind |-> "json", value |-> value]

JNull == [t |-> "null"]
JString(s) == [t |-> "string", s |-> s]
JArray(a) == [t |-> "array", a |-> a]
\* o: a function from the member names to their values
JObject(o) == [t |-> "object", o |-> o]

\* What reading a property that a value does not have gives.
Undefined == [t |-> "undefined"]

\* JSON.stringify of an array of strings.
StringifyNames(names) == JArray([i \in 1..Len(names) |-> JString(names[i])])

\* JSON.stringify of the lmConfig field: null, an LMConfig, or whatever value
\* an earlier load has left in the state.
StringifyLM(lmConfig) ==
    IF lmConfig = NullLM THEN JNull
    ELSE IF "provider" \in DOMAIN lmConfig
    THEN JObject([provider  |-> JString(lmConfig.provider),
                  modelName |-> JString(lmConfig.modelName)])
    ELSE lmConfig

\* Stringify writing the servers' urls without their selectedTools.
Stringify_urlsOnly(lmConfig, servers) ==
    Json(JObject(
        [ lmConfig   |-> StringifyLM(lmConfig),
          mcpServers |->
              JArray([i \in 1..Len(servers) |->
                         JObject([url |-> JString(servers[i].url),
                                  selectedTools |-> StringifyNames(<<>>)])]) ]))


\* JSON.stringify({ lmConfig, mcpServers }).
Stringify(lmConfig, servers) ==
    Json(JObject(
        [ lmConfig   |-> StringifyLM(lmConfig),
          mcpServers |->
              JArray([i \in 1..Len(servers) |->
                         JObject([url |-> JString(servers[i].url),
                                  selectedTools |->
                                      StringifyNames(servers[i].selectedTools)])]) ]))

\* config.key on a parsed value.
Get(value, key) ==
    IF value.t = "object" /\ key \in DOMAIN value.o THEN value.o[key] ELSE Undefined

\* The values that "x || fallback" replaces; of numbers and booleans, which
\* the stored texts of this model do not hold, 0 and false are the others.
Falsy(value) ==
    \/ value.t \in {"undefined", "null"}
    \/ value.t = "string" /\ value.s = <<>>

\* A parsed lmConfig as the state holds it: an LMConfig where it is one, else
\* the value as parsed.
ParsedLM(value) ==
    IF /\ value.t = "object"
       /\ DOMAIN value.o = {"provider", "modelName"}
       /\ value.o.provider.t = "string"
       /\ value.o.modelName.t = "string"
    THEN [provider |-> value.o.provider.s, modelName |-> value.o.modelName.s]
    ELSE value

\* A parsed array of {url, selectedTools} objects as the state holds it.
ParsedServers(value) ==
    [i \in 1..Len(value.a) |->
        [url |-> value.a[i].o.url.s,
         selectedTools |->
             [j \in 1..Len(value.a[i].o.selectedTools.a) |->
                 value.a[i].o.selectedTools.a[j].s]]]

\* The mount effect's read of the stored item: what it hands to the two state
\* setters, or set = FALSE when it reaches neither.  JSON.parse throws on a
\* text that is not JSON, and config.lmConfig throws on a parsed null; both
\* are caught.
Load(blob) ==
    IF blob.kind # "json" \/ blob.value.t = "null"
    THEN [set |-> FALSE, lmConfig |-> NullLM, mcpServers |-> <<>>]
    ELSE [set        |-> TRUE,
          lmConfig   |-> IF Falsy(Get(blob.value, "lmConfig")) THEN NullLM
                         ELSE ParsedLM(Get(blob.value, "lmConfig")),
          mcpServers |-> IF Falsy(Get(blob.value, "mcpServers")) THEN <<>>
                         ELSE ParsedServers(Get(blob.value, "mcpServers"))]

\* saveGlobalConfig keeping the stored servers that the new list lacks.
saveGlobalConfig_merge(lmConfig, servers, writeOk) ==
    /\ storage' =
           IF writeOk
           THEN Stringify(lmConfig,
                    SelectSeq(Load(storage).mcpServers,
                              LAMBDA old : \A i \in 1..Len(servers) :
                                               servers[i].url # old.url)
                        \o servers)
           ELSE storage
    /\ uncaughtError' = (uncaughtError \/ ~writeOk)


\* saveGlobalConfig: localStorage.setItem, which throws when the write fails.
\* Nothing between setItem and the button's onClick catches the exception.
saveGlobalConfig(lmConfig, servers, writeOk) ==
    /\ storage' = IF writeOk THEN Stringify(lmConfig, servers) ELSE storage
    /\ uncaughtError' = (uncaughtError \/ ~writeOk)

\* setGlobalLMConfig writing the new language model beside an empty server
\* list.
setGlobalLMConfig_dropsServers(config, writeOk) ==
    /\ globalLMConfig' = config
    /\ saveGlobalConfig(config, <<>>, writeOk)
    /\ UNCHANGED mcpServers

setGlobalLMConfig(config, writeOk) ==
    /\ globalLMConfig' = config
    /\ saveGlobalConfig(config, mcpServers, writeOk)
    /\ UNCHANGED mcpServers

setMCPServers(servers, writeOk) ==
    /\ mcpServers' = servers
    /\ saveGlobalConfig(globalLMConfig, servers, writeOk)
    /\ UNCHANGED globalLMConfig

\* The provider's mount effect: read the blob, then refreshProviderStatus().
\* The dialog's effect follows when the context state was set.
ProviderMount ==
    /\ ~mounted
    /\ mounted' = TRUE
    /\ refreshPending' = TRUE
    /\ IF Load(storage).set
       THEN /\ globalLMConfig' = Load(storage).lmConfig
            /\ mcpServers' = Load(storage).mcpServers
            /\ LET M == Modal_useEffect(Modal, Load(storage).mcpServers)
               IN  WithinBound(M.pendingFetches) /\ SetModal(M)
       ELSE /\ UNCHANGED <<globalLMConfig, mcpServers>>
            /\ SetModal([Modal EXCEPT !.draftIsCommitted = TRUE])
    /\ UNCHANGED <<storage, uncaughtError, isOpen, nodeVars>>

\* refreshProviderStatus after its await.  setAvailableProviders stores a new
\* object, so the dialog's effect runs.
RefreshSettled(ok) ==
    /\ mounted /\ refreshPending
    /\ refreshPending' = FALSE
    /\ IF ok
       THEN LET M == Modal_useEffect(Modal, mcpServers)
            IN  WithinBound(M.pendingFetches) /\ SetModal(M)
       ELSE SetModal(Modal)
    /\ UNCHANGED <<mounted, globalLMConfig, mcpServers, storage, uncaughtError,
                   isOpen, nodeVars>>

\* ------------------------------------------------------------------------
\* LMConfigModal.tsx: actions
\* ------------------------------------------------------------------------

OpenModal ==
    /\ mounted /\ ~isOpen
    /\ isOpen' = TRUE
    /\ UNCHANGED <<contextVars, localMCPServers, draftIsCommitted, availableTools,
                   loadingTools, pendingFetches, nodeVars>>

\* The Cancel and X buttons: onClose.
CancelModal ==
    /\ mounted /\ isOpen
    /\ isOpen' = FALSE
    /\ UNCHANGED <<contextVars, localMCPServers, draftIsCommitted, availableTools,
                   loadingTools, pendingFetches, nodeVars>>

ModalEdit(M) ==
    /\ mounted /\ isOpen
    /\ WithinBound(M.pendingFetches)
    /\ SetModal(M)
    /\ UNCHANGED <<contextVars, isOpen, nodeVars>>

\* AddMCPServer committing the draft as it adds.
AddMCPServer_commits(text) ==
    /\ mounted /\ isOpen
    /\ WithinBound(Modal_addMCPServer(Modal, text).pendingFetches)
    /\ SetModal(Modal_addMCPServer(Modal, text))
    /\ setMCPServers(Modal_addMCPServer(Modal, text).localMCPServers, TRUE)
    /\ UNCHANGED <<mounted, refreshPending, isOpen, nodeVars>>


AddMCPServer(text) == ModalEdit(Modal_addMCPServer(Modal, text))

RemoveMCPServer(u) ==
    /\ \E i \in 1..Len(localMCPServers) : localMCPServers[i].url = u
    /\ ModalEdit(Modal_removeMCPServer(Modal, u))

ToggleToolSelection(u, t) ==
    /\ Modal_offersTool(Modal, u, t)
    /\ ModalEdit(Modal_toolCheckbox(Modal, u, t))

SelectAllTools(u) ==
    /\ Modal_showsTools(Modal, u)
    /\ ModalEdit(Modal_selectAllTools(Modal, u))

DeselectAllTools(u) ==
    /\ Modal_showsTools(Modal, u)
    /\ ModalEdit(Modal_deselectAllTools(Modal, u))

FetchSettled(u, which, resp) ==
    /\ mounted
    /\ CanSettle(pendingFetches, u, which)
    /\ SetModal(Modal_fetchSettled(Modal, u, which, resp))
    /\ UNCHANGED <<contextVars, isOpen, nodeVars>>

\* `${selectedProvider}/${modelName.trim()}`
FullModelName(form) == <<form.provider, "/">> \o Trim(form.modelName)

\* handleSave on the LM tab.  setGlobalLMConfig stores a new object, so the
\* dialog's effect runs.  onClose is not reached when the write throws.
HandleSaveLM(form, writeOk) ==
    /\ mounted /\ isOpen
    /\ IF Trim(form.modelName) = <<>>
       THEN UNCHANGED <<globalLMConfig, mcpServers, storage, uncaughtError,
                        isOpen, localMCPServers, draftIsCommitted,
                        availableTools, loadingTools, pendingFetches>>
       ELSE /\ setGlobalLMConfig(
                   [provider |-> form.provider, modelName |-> FullModelName(form)],
                   writeOk)
            /\ LET M == Modal_useEffect(Modal, mcpServers)
               IN  WithinBound(M.pendingFetches) /\ SetModal(M)
            /\ isOpen' = ~writeOk
    /\ UNCHANGED <<mounted, refreshPending, nodeVars>>

\* HandleSaveMCP with saved nodes following the committed servers.
HandleSaveMCP_live(writeOk) ==
    /\ mounted /\ isOpen
    /\ setMCPServers(localMCPServers, writeOk)
    /\ LET M == IF draftIsCommitted THEN Modal
                ELSE Modal_useEffect(Modal, localMCPServers)
       IN  WithinBound(M.pendingFetches) /\ SetModal(M)
    /\ isOpen' = ~writeOk
    /\ nodeData' =
           [n \in Nodes |->
               IF nodeData[n].useGlobalMcpServers
               THEN [nodeData[n] EXCEPT
                         !.globalMcpServersSnapshot = localMCPServers]
               ELSE nodeData[n]]
    /\ UNCHANGED <<mounted, refreshPending, nodeDraftVars>>

\* handleSave on the MCP tab.  The effect runs when the draft is another
\* array than the committed one.
HandleSaveMCP(writeOk) ==
    /\ mounted /\ isOpen
    /\ setMCPServers(localMCPServers, writeOk)
    /\ LET M == IF draftIsCommitted THEN Modal
                ELSE Modal_useEffect(Modal, localMCPServers)
       IN  WithinBound(M.pendingFetches) /\ SetModal(M)
    /\ isOpen' = ~writeOk
    /\ UNCHANGED <<mounted, refreshPending, nodeVars>>

\* handleClear on the LM tab.
HandleClearLM(writeOk) ==
    /\ mounted /\ isOpen
    /\ setGlobalLMConfig(NullLM, writeOk)
    /\ LET M == IF globalLMConfig = NullLM THEN Modal
                ELSE Modal_useEffect(Modal, mcpServers)
       IN  WithinBound(M.pendingFetches) /\ SetModal(M)
    /\ isOpen' = ~writeOk
    /\ UNCHANGED <<mounted, refreshPending, nodeVars>>

\* HandleClearMCP emptying the draft only.
HandleClearMCP_draftOnly(writeOk) ==
    /\ mounted /\ isOpen
    /\ SetModal([Modal EXCEPT !.localMCPServers = <<>>,
                              !.draftIsCommitted = FALSE])
    /\ isOpen' = ~writeOk
    /\ UNCHANGED <<mounted, globalLMConfig, mcpServers, storage, refreshPending,
                   uncaughtError, nodeVars>>


\* handleClear on the MCP tab: setLocalMCPServers([]), setMCPServers([]), then
\* the effect with the new, empty list.
HandleClearMCP(writeOk) ==
    /\ mounted /\ isOpen
    /\ setMCPServers(<<>>, writeOk)
    /\ SetModal(Modal_useEffect(Modal, <<>>))
    /\ isOpen' = ~writeOk
    /\ UNCHANGED <<mounted, refreshPending, nodeVars>>


\* ------------------------------------------------------------------------
\* ModuleNode.tsx: the handlers as functions of one editor's state
\* ------------------------------------------------------------------------

Node(n) ==
    [ mcpServers          |-> nodeMcpServers[n],
      selectedTools       |-> nodeSelectedTools[n],
      availableTools      |-> nodeAvailableTools[n],
      loadingTools        |-> nodeLoadingTools[n],
      pendingFetches      |-> nodePendingFetches[n],
      useGlobalMcpServers |-> useGlobalMcpServers[n] ]

Node_fetchToolsForServer(N, serverUrl) ==
    [N EXCEPT !.loadingTools = Put(@, serverUrl, TRUE),
              !.pendingFetches = Request(@, serverUrl)]

\* Node_fetchSettled without the auto-select.
Node_fetchSettled_noSeed(N, serverUrl, which, resp) ==
    [N EXCEPT !.availableTools =
                  IF resp.kind = "ok" THEN Put(@, serverUrl, resp.tools) ELSE @,
              !.loadingTools = Put(@, serverUrl, FALSE),
              !.pendingFetches = Settle(@, serverUrl, which)]


\* After the await: the catalog and, "auto-select all tools by default", the
\* selection; the loading flag in finally.
Node_fetchSettled(N, serverUrl, which, resp) ==
    [N EXCEPT !.availableTools =
                  IF resp.kind = "ok" THEN Put(@, serverUrl, resp.tools) ELSE @,
              !.selectedTools =
                  IF resp.kind = "ok" THEN Put(@, serverUrl, resp.tools) ELSE @,
              !.loadingTools = Put(@, serverUrl, FALSE),
              !.pendingFetches = Settle(@, serverUrl, which)]

\* Node_addMcpServer with the duplicate test on the text as typed.
Node_addMcpServer_rawTest(N, newMcpServer) ==
    LET serverUrl == Trim(newMcpServer)
    IN  IF serverUrl # <<>> /\ ~Includes(N.mcpServers, newMcpServer)
        THEN Node_fetchToolsForServer(
                 [N EXCEPT !.mcpServers = Append(@, serverUrl)], serverUrl)
        ELSE N


Node_addMcpServer(N, newMcpServer) ==
    LET serverUrl == Trim(newMcpServer)
    IN  IF serverUrl # <<>> /\ ~Includes(N.mcpServers, serverUrl)
        THEN Node_fetchToolsForServer(
                 [N EXCEPT !.mcpServers = Append(@, serverUrl)], serverUrl)
        ELSE N

\* Node_removeMcpServer leaving the selection entry behind.
Node_removeMcpServer_keepsSelection(N, serverUrl) ==
    [N EXCEPT !.mcpServers = Without(@, serverUrl),
              !.availableTools = Del(@, serverUrl)]


Node_removeMcpServer(N, serverUrl) ==
    [N EXCEPT !.mcpServers = Without(@, serverUrl),
              !.availableTools = Del(@, serverUrl),
              !.selectedTools = Del(@, serverUrl)]

Node_toggleToolSelection(N, serverUrl, toolName) ==
    LET serverTools == IF serverUrl \in DOMAIN N.selectedTools
                       THEN N.selectedTools[serverUrl] ELSE <<>>
    IN  [N EXCEPT !.selectedTools =
                      Put(@, serverUrl,
                          IF Includes(serverTools, toolName)
                          THEN Without(serverTools, toolName)
                          ELSE Append(serverTools, toolName))]

\* What the editor renders for a server (ModuleNode.tsx lines 380, 414-429).
Node_showsTools(N, serverUrl) ==
    /\ Includes(N.mcpServers, serverUrl)
    /\ ~(serverUrl \in DOMAIN N.loadingTools /\ N.loadingTools[serverUrl])
    /\ serverUrl \in DOMAIN N.availableTools
    /\ Len(N.availableTools[serverUrl]) > 0

Node_offersTool(N, serverUrl, toolName) ==
    /\ Node_showsTools(N, serverUrl)
    /\ Includes(N.availableTools[serverUrl], toolName)

\* The checkbox of a tool in the node editor.
Node_toolCheckbox(N, serverUrl, toolName) ==
    IF Node_offersTool(N, serverUrl, toolName)
    THEN Node_toggleToolSelection(N, serverUrl, toolName)
    ELSE N

\* globalMCPServers.map(s => ({ url: s.url, selectedTools: s.selectedTools }))
SnapshotOf(globalMCPServers) ==
    [i \in 1..Len(globalMCPServers) |->
        [url |-> globalMCPServers[i].url,
         selectedTools |-> globalMCPServers[i].selectedTools]]

\* Node_dataToSave taking the snapshot whatever the checkbox says.
Node_dataToSave_always(N, globalMCPServers) ==
    [ written                  |-> TRUE,
      mcpServers               |-> N.mcpServers,
      useGlobalMcpServers      |-> N.useGlobalMcpServers,
      selectedTools            |-> N.selectedTools,
      globalMcpServersSnapshot |-> SnapshotOf(globalMCPServers) ]

\* Node_dataToSave taking the urls of the global servers without their tools.
Node_dataToSave_urlsOnly(N, globalMCPServers) ==
    [ written                  |-> TRUE,
      mcpServers               |-> N.mcpServers,
      useGlobalMcpServers      |-> N.useGlobalMcpServers,
      selectedTools            |-> N.selectedTools,
      globalMcpServersSnapshot |->
          IF N.useGlobalMcpServers
          THEN [i \in 1..Len(globalMCPServers) |->
                   [url |-> globalMCPServers[i].url, selectedTools |-> <<>>]]
          ELSE <<>> ]

\* Node_dataToSave leaving out the global servers that the node lists itself.
Node_dataToSave_dedup(N, globalMCPServers) ==
    [ written                  |-> TRUE,
      mcpServers               |-> N.mcpServers,
      useGlobalMcpServers      |-> N.useGlobalMcpServers,
      selectedTools            |-> N.selectedTools,
      globalMcpServersSnapshot |->
          IF N.useGlobalMcpServers
          THEN SelectSeq(SnapshotOf(globalMCPServers),
                         LAMBDA g : ~Includes(N.mcpServers, g.url))
          ELSE <<>> ]

\* Node_dataToSave setting the flag whenever there are global servers.
Node_dataToSave_flagOn(N, globalMCPServers) ==
    [ written                  |-> TRUE,
      mcpServers               |-> N.mcpServers,
      useGlobalMcpServers      |-> N.useGlobalMcpServers
                                       \/ Len(globalMCPServers) > 0,
      selectedTools            |-> N.selectedTools,
      globalMcpServersSnapshot |-> SnapshotOf(globalMCPServers) ]


\* nodeDataToSave, the MCP fields.  written: node.data holds these keys.
Node_dataToSave(N, globalMCPServers) ==
    [ written                  |-> TRUE,
      mcpServers               |-> N.mcpServers,
      useGlobalMcpServers      |-> N.useGlobalMcpServers,
      selectedTools            |-> N.selectedTools,
      globalMcpServersSnapshot |->
          IF N.useGlobalMcpServers THEN SnapshotOf(globalMCPServers) ELSE <<>> ]

\* setNodes giving the saved data to every node.
SetNodes_all(nds, id, nodeDataToSave) ==
    [k \in DOMAIN nds |-> nodeDataToSave]

\* setNodes(nds => nds.map(node => node.id === id ? {...node, data} : node))
SetNodes(nds, id, nodeDataToSave) ==
    [k \in DOMAIN nds |-> IF k = id THEN nodeDataToSave ELSE nds[k]]

\* node.data of a node that was never saved: it holds none of the MCP keys,
\* and each reads as its default (ModuleNode.tsx lines 33-36).
NewNodeData ==
    [ written                  |-> FALSE,
      mcpServers               |-> <<>>,
      useGlobalMcpServers      |-> FALSE,
      selectedTools            |-> EmptyMap,
      globalMcpServersSnapshot |-> <<>> ]

SetNode(n, N) ==
    /\ nodeMcpServers' = [nodeMcpServers EXCEPT ![n] = N.mcpServers]
    /\ nodeSelectedTools' = [nodeSelectedTools EXCEPT ![n] = N.selectedTools]
    /\ nodeAvailableTools' = [nodeAvailableTools EXCEPT ![n] = N.availableTools]
    /\ nodeLoadingTools' = [nodeLoadingTools EXCEPT ![n] = N.loadingTools]
    /\ nodePendingFetches' = [nodePendingFetches EXCEPT ![n] = N.pendingFetches]
    /\ useGlobalMcpServers' =
           [useGlobalMcpServers EXCEPT ![n] = N.useGlobalMcpServers]

\* ------------------------------------------------------------------------
\* ModuleNode.tsx: actions
\* ------------------------------------------------------------------------

NodeEdit(n, N) ==
    /\ mounted
    /\ WithinBound(N.pendingFetches)
    /\ SetNode(n, N)
    /\ UNCHANGED <<contextVars, modalVars, nodeData>>

NodeAddMcpServer(n, text) == NodeEdit(n, Node_addMcpServer(Node(n), text))

NodeRemoveMcpServer(n, u) ==
    /\ Includes(nodeMcpServers[n], u)
    /\ NodeEdit(n, Node_removeMcpServer(Node(n), u))

NodeToggleToolSelection(n, u, t) ==
    /\ Node_offersTool(Node(n), u, t)
    /\ NodeEdit(n, Node_toolCheckbox(Node(n), u, t))

\* The "Use Global MCP Servers" checkbox.
NodeSetUseGlobal(n, checked) ==
    NodeEdit(n, [Node(n) EXCEPT !.useGlobalMcpServers = checked])

NodeFetchSettled(n, u, which, resp) ==
    /\ mounted
    /\ CanSettle(nodePendingFetches[n], u, which)
    /\ SetNode(n, Node_fetchSettled(Node(n), u, which, resp))
    /\ UNCHANGED <<contextVars, modalVars, nodeData>>

\* NodeHandleSave reading the dialog's draft instead of the committed servers.
NodeHandleSave_draft(n) ==
    /\ mounted
    /\ nodeData' = SetNodes(nodeData, n, Node_dataToSave(Node(n), localMCPServers))
    /\ UNCHANGED <<contextVars, modalVars, nodeDraftVars>>


NodeHandleSave(n) ==
    /\ mounted
    /\ nodeData' = SetNodes(nodeData, n, Node_dataToSave(Node(n), mcpServers))
    /\ UNCHANGED <<contextVars, modalVars, nodeDraftVars>>

\* ------------------------------------------------------------------------
\* A new session
\* ------------------------------------------------------------------------

\* The page is loaded again: every useState starts from its initial value,
\* the requests of the old page are gone, and the stored item is what the old
\* page left.
Reload ==
    /\ mounted
    /\ mounted' = FALSE
    /\ globalLMConfig' = NullLM
    /\ mcpServers' = <<>>
    /\ refreshPending' = FALSE
    /\ uncaughtError' = FALSE
    /\ isOpen' = FALSE
    /\ localMCPServers' = <<>>
    /\ draftIsCommitted' = FALSE
    /\ availableTools' = EmptyMap
    /\ loadingTools' = EmptyMap
    /\ pendingFetches' = NoFetches
    /\ nodeMcpServers' = [n \in Nodes |-> <<>>]
    /\ nodeSelectedTools' = [n \in Nodes |-> EmptyMap]
    /\ nodeAvailableTools' = [n \in Nodes |-> EmptyMap]
    /\ nodeLoadingTools' = [n \in Nodes |-> EmptyMap]
    /\ nodePendingFetches' = [n \in Nodes |-> NoFetches]
    /\ useGlobalMcpServers' = [n \in Nodes |-> FALSE]
    /\ nodeData' = [n \in Nodes |-> NewNodeData]
    /\ UNCHANGED storage

\* ------------------------------------------------------------------------
\* ToolSelectionSet.effectiveSelection and ConfigResolver.resolve, which read
\* a saved node.  The catalogs are those the servers offer when the node runs.
\* ------------------------------------------------------------------------

\* effectiveSelection handing out the stored selection as it is.
effectiveSelection_asStored(selections, url, catalog) ==
    IF url \in DOMAIN selections THEN selections[url] ELSE <<>>


\* The selection of url intersected with the catalog's tool names.
effectiveSelection(selections, url, catalog) ==
    SelectSeq(IF url \in DOMAIN selections THEN selections[url] ELSE <<>>,
              LAMBDA t : Includes(catalog, t))

\* resolve: the local servers in their order, each with its effective
\* selection; then, with useGlobal, the snapshot's entries as they are.
resolve(nodeConfig, catalogs) ==
    [i \in 1..Len(nodeConfig.mcpServers) |->
        [url   |-> nodeConfig.mcpServers[i],
         tools |-> effectiveSelection(
                       nodeConfig.selectedTools, nodeConfig.mcpServers[i],
                       IF nodeConfig.mcpServers[i] \in DOMAIN catalogs
                       THEN catalogs[nodeConfig.mcpServers[i]] ELSE <<>>)]]
    \o (IF nodeConfig.useGlobalMcpServers
        THEN [i \in 1..Len(nodeConfig.globalMcpServersSnapshot) |->
                 [url   |-> nodeConfig.globalMcpServersSnapshot[i].url,
                  tools |-> nodeConfig.globalMcpServersSnapshot[i].selectedTools]]
        ELSE <<>>)

\* ------------------------------------------------------------------------
\* Specifications
\* ------------------------------------------------------------------------

\* Blobs that an earlier session of the program has written.
StoredBlobs ==
    { Absent,
      Stringify(NullLM, <<>>),
      Stringify(NullLM, <<[url |-> UrlA, selectedTools |-> <<"x">>]>>) }

InitWith(blobs) ==
    /\ mounted = FALSE
    /\ globalLMConfig = NullLM
    /\ mcpServers = <<>>
    /\ storage \in blobs
    /\ refreshPending = FALSE
    /\ uncaughtError = FALSE
    /\ isOpen = FALSE
    /\ localMCPServers = <<>>
    /\ draftIsCommitted = FALSE
    /\ availableTools = EmptyMap
    /\ loadingTools = EmptyMap
    /\ pendingFetches = NoFetches
    /\ nodeMcpServers = [n \in Nodes |-> <<>>]
    /\ nodeSelectedTools = [n \in Nodes |-> EmptyMap]
    /\ nodeAvailableTools = [n \in Nodes |-> EmptyMap]
    /\ nodeLoadingTools = [n \in Nodes |-> EmptyMap]
    /\ nodePendingFetches = [n \in Nodes |-> NoFetches]
    /\ useGlobalMcpServers = [n \in Nodes |-> FALSE]
    /\ nodeData = [n \in Nodes |-> NewNodeData]

\* Server registries: adding and removing servers in the global dialog and
\* in one node's editor, and the catalog requests that follow.
RegistryTexts == InputTexts
RegistryResponses ==
    { [kind |-> "ok", tools |-> <<"x">>],
      [kind |-> "error", tools |-> <<>>],
      [kind |-> "notok", tools |-> <<>>] }

RegistryNext ==
    \/ ProviderMount
    \/ OpenModal
    \/ \E text \in RegistryTexts : AddMCPServer(text)
    \/ \E u \in Urls : RemoveMCPServer(u)
    \/ \E u \in Urls, which \in {"latest", "stale"}, resp \in RegistryResponses :
           FetchSettled(u, which, resp)
    \/ \E text \in RegistryTexts : NodeAddMcpServer("n1", text)
    \/ \E u \in Urls : NodeRemoveMcpServer("n1", u)
    \/ \E u \in Urls, which \in {"latest", "stale"}, resp \in RegistryResponses :
           NodeFetchSettled("n1", u, which, resp)

SpecRegistry == InitWith({Absent}) /\ [][RegistryNext]_vars

\* Snapshots: committing the global servers and saving nodes.
SnapshotTexts == {UrlA, UrlB}
SnapshotResponses ==
    { [kind |-> "ok", tools |-> <<"x">>], [kind |-> "error", tools |-> <<>>] }

SnapshotNext ==
    \/ ProviderMount
    \/ OpenModal
    \/ CancelModal
    \/ \E text \in SnapshotTexts : AddMCPServer(text)
    \/ \E u \in Urls : RemoveMCPServer(u)
    \/ \E u \in Urls : SelectAllTools(u)
    \/ \E u \in Urls : DeselectAllTools(u)
    \/ \E u \in Urls, which \in {"latest", "stale"}, resp \in SnapshotResponses :
           FetchSettled(u, which, resp)
    \/ HandleSaveMCP(TRUE)
    \/ HandleClearMCP(TRUE)
    \/ \E checked \in BOOLEAN : NodeSetUseGlobal("n1", checked)
    \/ NodeHandleSave("n1")

SpecSnapshot == InitWith({Absent}) /\ [][SnapshotNext]_vars

\* Scopes: every operation that writes a server list, with stored servers to
\* start from.
ScopesResponses ==
    { [kind |-> "error", tools |-> <<>>], [kind |-> "notok", tools |-> <<>>] }

ScopesNext ==
    \/ ProviderMount
    \/ OpenModal
    \/ \E text \in InputTexts : AddMCPServer(text)
    \/ \E u \in Urls : RemoveMCPServer(u)
    \/ \E u \in Urls, which \in {"latest", "stale"}, resp \in ScopesResponses :
           FetchSettled(u, which, resp)
    \/ HandleSaveMCP(TRUE)
    \/ HandleClearMCP(TRUE)
    \/ \E text \in InputTexts : NodeAddMcpServer("n1", text)
    \/ \E u \in Urls : NodeRemoveMcpServer("n1", u)
    \/ \E u \in Urls, which \in {"latest", "stale"}, resp \in ScopesResponses :
           NodeFetchSettled("n1", u, which, resp)

SpecScopes == InitWith(StoredBlobs) /\ [][ScopesNext]_vars

\* Selections: choosing tools of loaded catalogs in the global dialog and in
\* one node's editor.
SelectionTexts == {UrlA, UrlB}
SelectionResponses ==
    { [kind |-> "ok", tools |-> <<"x", "y">>],
      [kind |-> "ok", tools |-> <<"x">>],
      [kind |-> "error", tools |-> <<>>] }

SelectionNext ==
    \/ ProviderMount
    \/ OpenModal
    \/ \E text \in SelectionTexts : AddMCPServer(text)
    \/ \E u \in Urls, t \in Tools : ToggleToolSelection(u, t)
    \/ \E u \in Urls : SelectAllTools(u)
    \/ \E u \in Urls : DeselectAllTools(u)
    \/ \E u \in Urls, which \in {"latest", "stale"}, resp \in SelectionResponses :
           FetchSettled(u, which, resp)
    \/ \E text \in SelectionTexts : NodeAddMcpServer("n1", text)
    \/ \E u \in Urls, t \in Tools : NodeToggleToolSelection("n1", u, t)
    \/ \E u \in Urls, which \in {"latest", "stale"}, resp \in SelectionResponses :
           NodeFetchSettled("n1", u, which, resp)

SpecSelection == InitWith({Absent}) /\ [][SelectionNext]_vars

\* The store: the global configuration loaded from the stored item, edited,
\* committed, cleared and loaded again by a new session.  The stored item a
\* session starts from is absent, not JSON, JSON of another shape than
\* GlobalConfig, or a GlobalConfig that an earlier session has written.
SavedLM == [provider |-> "openai", modelName |-> <<"openai", "/", "m">>]
SavedServer == [url |-> UrlA, selectedTools |-> <<"x">>]

WrongShapeBlobs ==
    { Json(JNull),
      Json(JString(<<"o">>)),
      Json(JObject([servers |-> JArray(<<>>)])),
      Json(JObject([lmConfig   |-> JString(<<"o">>),
                    mcpServers |-> Stringify(NullLM, <<SavedServer>>)
                                       .value.o.mcpServers])) }

StoreBlobs ==
    {Absent, Garbage, Stringify(SavedLM, <<SavedServer>>)} \cup WrongShapeBlobs

StoreTexts == {UrlA, UrlB}
StoreResponses ==
    { [kind |-> "ok", tools |-> <<"x">>], [kind |-> "error", tools |-> <<>>] }

StoreNext ==
    \/ ProviderMount
    \/ OpenModal
    \/ \E text \in StoreTexts : AddMCPServer(text)
    \/ \E u \in Urls : RemoveMCPServer(u)
    \/ \E u \in Urls : SelectAllTools(u)
    \/ \E u \in Urls, which \in {"latest", "stale"}, resp \in StoreResponses :
           FetchSettled(u, which, resp)
    \/ HandleSaveMCP(TRUE)
    \/ HandleClearMCP(TRUE)
    \/ Reload

SpecStore == InitWith(StoreBlobs) /\ [][StoreNext]_vars

\* One node's editor: servers added, removed and added again, tools chosen,
\* the node saved.
NodeSelectionNext ==
    \/ ProviderMount
    \/ \E text \in SelectionTexts : NodeAddMcpServer("n1", text)
    \/ \E u \in Urls : NodeRemoveMcpServer("n1", u)
    \/ \E u \in Urls, t \in Tools : NodeToggleToolSelection("n1", u, t)
    \/ \E u \in Urls, which \in {"latest", "stale"}, resp \in SelectionResponses :
           NodeFetchSettled("n1", u, which, resp)
    \/ NodeHandleSave("n1")

SpecNodeSelection == InitWith({Absent}) /\ [][NodeSelectionNext]_vars

\* A session of the global dialog: stored servers are loaded and fetched, the
\* provider status arrives, language model and servers are saved and cleared,
\* and a write to localStorage succeeds or fails.
SessionTexts == {UrlB}
SessionResponses ==
    { [kind |-> "ok", tools |-> <<"x", "y">>],
      [kind |-> "ok", tools |-> <<"y">>],
      [kind |-> "error", tools |-> <<>>] }

SessionNext ==
    \/ ProviderMount
    \/ \E ok \in BOOLEAN : RefreshSettled(ok)
    \/ OpenModal
    \/ CancelModal
    \/ \E text \in SessionTexts : AddMCPServer(text)
    \/ \E u \in Urls : SelectAllTools(u)
    \/ \E u \in Urls, which \in {"latest", "stale"}, resp \in SessionResponses :
           FetchSettled(u, which, resp)
    \/ \E form \in LMForms, writeOk \in BOOLEAN : HandleSaveLM(form, writeOk)
    \/ \E writeOk \in BOOLEAN : HandleSaveMCP(writeOk)
    \/ \E writeOk \in BOOLEAN : HandleClearLM(writeOk)
    \/ \E writeOk \in BOOLEAN : HandleClearMCP(writeOk)

SpecSession == InitWith(StoredBlobs) /\ [][SessionNext]_vars

\* The draft of the global dialog: every draft operation, Cancel, Save and
\* Clear, with a stored configuration or none to start from.
DraftResponses ==
    { [kind |-> "ok", tools |-> <<"x", "y">>], [kind |-> "error", tools |-> <<>>] }

DraftNext ==
    \/ ProviderMount
    \/ OpenModal
    \/ CancelModal
    \/ \E text \in SelectionTexts : AddMCPServer(text)
    \/ \E u \in Urls : RemoveMCPServer(u)
    \/ \E u \in Urls, t \in Tools : ToggleToolSelection(u, t)
    \/ \E u \in Urls : SelectAllTools(u)
    \/ \E u \in Urls : DeselectAllTools(u)
    \/ \E u \in Urls, which \in {"latest", "stale"}, resp \in DraftResponses :
           FetchSettled(u, which, resp)
    \/ HandleSaveMCP(TRUE)
    \/ HandleClearMCP(TRUE)

DraftBlobs == {Absent, Stringify(NullLM, <<SavedServer>>)}

SpecDraft == InitWith(DraftBlobs) /\ [][DraftNext]_vars

\* The committed configuration and the stored item: language model and
\* servers saved and cleared in any order, writes that succeed or fail, and
\* a new session, from each kind of stored item.
ConfigResponses == { [kind |-> "ok", tools |-> <<"x", "y">>] }

ConfigNext ==
    \/ ProviderMount
    \/ OpenModal
    \/ AddMCPServer(UrlB)
    \/ \E u \in Urls : SelectAllTools(u)
    \/ \E u \in Urls, which \in {"latest", "stale"}, resp \in ConfigResponses :
           FetchSettled(u, which, resp)
    \/ \E form \in LMForms, writeOk \in BOOLEAN : HandleSaveLM(form, writeOk)
    \/ \E writeOk \in BOOLEAN : HandleSaveMCP(writeOk)
    \/ \E writeOk \in BOOLEAN : HandleClearLM(writeOk)
    \/ \E writeOk \in BOOLEAN : HandleClearMCP(writeOk)
    \/ Reload

SpecConfig == InitWith(StoreBlobs) /\ [][ConfigNext]_vars

\* Two nodes' editors side by side: each adds a server, chooses tools,
\* follows the global servers or not, and is saved; the first also removes
\* its server and adds it again.
NodesTexts == {UrlA}
NodesResponses == { [kind |-> "ok", tools |-> <<"x", "y">>] }

NodesNext ==
    \/ ProviderMount
    \/ \E n \in Nodes, text \in NodesTexts : NodeAddMcpServer(n, text)
    \/ \E u \in Urls : NodeRemoveMcpServer("n1", u)
    \/ \E n \in Nodes, u \in Urls, t \in Tools : NodeToggleToolSelection(n, u, t)
    \/ \E n \in Nodes, checked \in BOOLEAN : NodeSetUseGlobal(n, checked)
    \/ \E n \in Nodes, u \in Urls, which \in {"latest", "stale"},
          resp \in NodesResponses :
           NodeFetchSettled(n, u, which, resp)
    \/ \E n \in Nodes : NodeHandleSave(n)

SpecNodes == InitWith({Stringify(NullLM, <<SavedServer>>)}) /\ [][NodesNext]_vars

\* Catalog requests that end in each of the four ways, in the global dialog
\* and in one node's editor, beside the operations of the user.  The transport
\* answers every request: a request that is in flight is settled in the end.
LoadingTexts == {UrlA}
LoadingResponses ==
    { [kind |-> "ok", tools |-> <<"x", "y">>],
      [kind |-> "notok", tools |-> <<>>],
      [kind |-> "malformed", tools |-> <<>>],
      [kind |-> "error", tools |-> <<>>] }

LoadingNext ==
    \/ ProviderMount
    \/ OpenModal
    \/ CancelModal
    \/ \E text \in LoadingTexts : AddMCPServer(text)
    \/ \E u \in Urls : RemoveMCPServer(u)
    \/ \E u \in Urls, t \in Tools : ToggleToolSelection(u, t)
    \/ \E u \in Urls, which \in {"latest", "stale"}, resp \in LoadingResponses :
           FetchSettled(u, which, resp)
    \/ HandleSaveMCP(TRUE)
    \/ HandleClearMCP(TRUE)
    \/ \E text \in LoadingTexts : NodeAddMcpServer("n1", text)
    \/ \E u \in Urls : NodeRemoveMcpServer("n1", u)
    \/ \E u \in Urls, t \in Tools : NodeToggleToolSelection("n1", u, t)
    \/ \E u \in Urls, which \in {"latest", "stale"}, resp \in LoadingResponses :
           NodeFetchSettled("n1", u, which, resp)

TransportResponds ==
    \A u \in Urls, which \in {"latest", "stale"} :
        /\ WF_vars(\E resp \in LoadingResponses : FetchSettled(u, which, resp))
        /\ WF_vars(\E resp \in LoadingResponses :
                       NodeFetchSettled("n1", u, which, resp))

SpecLoading == InitWith({Absent}) /\ [][LoadingNext]_vars /\ TransportResponds

\* Resolving a saved node: one node's editor with its own servers and
\* selections, the "Use Global MCP Servers" checkbox and the save, beside the
\* global servers that an earlier session has committed.
CommittedBlobs ==
    { Absent,
      Stringify(NullLM, <<[url |-> UrlA, selectedTools |-> <<"x">>]>>),
      Stringify(NullLM, <<[url |-> UrlB, selectedTools |-> <<"y">>],
                          [url |-> UrlA, selectedTools |-> <<>>]>>) }

ResolveNext ==
    \/ ProviderMount
    \/ \E text \in SelectionTexts : NodeAddMcpServer("n1", text)
    \/ \E u \in Urls, t \in Tools : NodeToggleToolSelection("n1", u, t)
    \/ \E u \in Urls, which \in {"latest", "stale"}, resp \in SelectionResponses :
           NodeFetchSettled("n1", u, which, resp)
    \/ \E checked \in BOOLEAN : NodeSetUseGlobal("n1", checked)
    \/ NodeHandleSave("n1")

SpecResolve == InitWith(CommittedBlobs) /\ [][ResolveNext]_vars


\* ------------------------------------------------------------------------
\* Properties
\* ------------------------------------------------------------------------

ModalUrls == Range(UrlsOf(localMCPServers))
NodeUrls(n) == Range(nodeMcpServers[n])

Distinct(s) == \A i, j \in 1..Len(s) : s[i] = s[j] => i = j

\* The catalog a scope holds for a url; a missing entry reads as no tools.
CatalogOf(tools, u) == IF u \in DOMAIN tools THEN tools[u] ELSE <<>>

IsLoading(loading, u) == u \in DOMAIN loading /\ loading[u]

\* C1: a node saved with useGlobal = true keeps its saved data, its
\* globalSnapshot included, in every step that is not a save of that node:
\* edits, saves and clears of the global scope leave it as it was.
C1_SnapshotFrozen ==
    [][\A n \in Nodes :
           (nodeData[n].useGlobalMcpServers /\ ~NodeHandleSave(n))
               => nodeData'[n] = nodeData[n]]_vars

\* A saved snapshot that the committed global servers have since moved away from.
C1_Witness ==
    /\ nodeData["n1"].useGlobalMcpServers
    /\ nodeData["n1"].globalMcpServersSnapshot
           = <<[url |-> UrlA, selectedTools |-> <<"x">>]>>
    /\ mcpServers = <<[url |-> UrlA, selectedTools |-> <<>>]>>

C3_SnapshotOnlyWithUseGlobal ==
    /\ [](\A n \in Nodes :
              nodeData[n].globalMcpServersSnapshot # <<>>
                  => nodeData[n].written /\ nodeData[n].useGlobalMcpServers)
    /\ [][\A n \in Nodes :
              (~useGlobalMcpServers[n] /\ NodeHandleSave(n))
                  => /\ nodeData'[n].globalMcpServersSnapshot = <<>>
                     /\ ~nodeData'[n].useGlobalMcpServers]_vars

\* A node saved with useGlobal = false while global servers are committed.
C3_Witness ==
    /\ nodeData["n1"].written
    /\ ~nodeData["n1"].useGlobalMcpServers
    /\ nodeData["n1"].globalMcpServersSnapshot = <<>>
    /\ Len(mcpServers) = 2

\* C4: in every reachable state of a scope, adding a url gives the scope the
\* urls it had and the url added, removing a url gives it the urls it had
\* except that url, and the completion of a catalog request leaves the server
\* list alone; so after any sequence of adds and removes the list holds
\* exactly the urls that were there or added and not removed since.
C4_AddRemoveExact ==
    /\ \A text \in InputTexts :
           Range(UrlsOf(Modal_addMCPServer(Modal, text).localMCPServers))
               = ModalUrls \cup ({Trim(text)} \ {<<>>})
    /\ \A u \in Urls :
           Range(UrlsOf(Modal_removeMCPServer(Modal, u).localMCPServers))
               = ModalUrls \ {u}
    /\ \A u \in Urls, which \in {"latest", "stale"}, resp \in Responses :
           Modal_fetchSettled(Modal, u, which, resp).localMCPServers
               = localMCPServers
    /\ \A n \in Nodes :
           /\ \A text \in InputTexts :
                  Range(Node_addMcpServer(Node(n), text).mcpServers)
                      = NodeUrls(n) \cup ({Trim(text)} \ {<<>>})
           /\ \A u \in Urls :
                  Range(Node_removeMcpServer(Node(n), u).mcpServers)
                      = NodeUrls(n) \ {u}
           /\ \A u \in Urls, which \in {"latest", "stale"}, resp \in Responses :
                  Node_fetchSettled(Node(n), u, which, resp).mcpServers
                      = nodeMcpServers[n]

\* Both scopes after an add of each url and a remove of one of them.
C4_Witness ==
    /\ ModalUrls = {UrlB}
    /\ UrlA \in DOMAIN loadingTools
    /\ NodeUrls("n1") = {UrlA}
    /\ UrlB \in DOMAIN nodeLoadingTools["n1"]

\* C5: no url occurs twice in the draft, in the committed global servers or
\* in a node's local servers.
C5_NoDuplicateUrls ==
    /\ Distinct(UrlsOf(localMCPServers))
    /\ Distinct(UrlsOf(mcpServers))
    /\ \A n \in Nodes : Distinct(nodeMcpServers[n])

\* Each of the three lists holds two servers.
C5_Witness ==
    /\ Len(localMCPServers) = 2
    /\ Len(mcpServers) = 2
    /\ Len(nodeMcpServers["n1"]) = 2

\* C6: adding a url that the scope already lists returns the scope as it was:
\* server list, selections, catalogs, loading flags and requests in flight.
C6_DuplicateAddChangesNothing ==
    /\ \A text \in InputTexts :
           Trim(text) \in ModalUrls => Modal_addMCPServer(Modal, text) = Modal
    /\ \A n \in Nodes : \A text \in InputTexts :
           Trim(text) \in NodeUrls(n) => Node_addMcpServer(Node(n), text) = Node(n)

\* Both scopes list url a with a loaded catalog, so that a second add of it
\* has something to disturb.
C6_Witness ==
    /\ UrlA \in ModalUrls
    /\ CatalogOf(availableTools, UrlA) = <<"x">>
    /\ UrlA \in NodeUrls("n1")
    /\ UrlA \in DOMAIN nodeSelectedTools["n1"]
    /\ nodeSelectedTools["n1"][UrlA] = <<"x">>

\* C7: adding a url that the scope does not list appends it to the server
\* list, the servers before it staying in their order, and starts its catalog
\* request: in the state the add returns the url is loading, with one more
\* request in flight.
C7_AddAppendsAndLoads ==
    /\ \A text \in InputTexts :
           (Trim(text) # <<>> /\ Trim(text) \notin ModalUrls)
               => LET R == Modal_addMCPServer(Modal, text)
                  IN  /\ R.localMCPServers =
                             Append(localMCPServers,
                                    [url |-> Trim(text), selectedTools |-> <<>>])
                      /\ IsLoading(R.loadingTools, Trim(text))
                      /\ InFlight(R.pendingFetches, Trim(text))
                             = InFlight(pendingFetches, Trim(text)) + 1
    /\ \A n \in Nodes : \A text \in InputTexts :
           (Trim(text) # <<>> /\ Trim(text) \notin NodeUrls(n))
               => LET R == Node_addMcpServer(Node(n), text)
                  IN  /\ R.mcpServers = Append(nodeMcpServers[n], Trim(text))
                      /\ IsLoading(R.loadingTools, Trim(text))
                      /\ InFlight(R.pendingFetches, Trim(text))
                             = InFlight(nodePendingFetches[n], Trim(text)) + 1

\* A second server appended behind a first in both scopes, its request pending.
C7_Witness ==
    /\ UrlsOf(localMCPServers) = <<UrlB, UrlA>>
    /\ IsLoading(loadingTools, UrlA) /\ pendingFetches[UrlA].latest
    /\ nodeMcpServers["n1"] = <<UrlA, UrlB>>
    /\ IsLoading(nodeLoadingTools["n1"], UrlB)
    /\ nodePendingFetches["n1"][UrlB].latest


\* The server list with the entry at position k left out.
DropAt(s, k) == SubSeq(s, 1, k - 1) \o SubSeq(s, k + 1, Len(s))

\* A map without the entry of u.
Others(m, u) == [x \in DOMAIN m \ {u} |-> m[x]]

\* C8: removing a listed url takes its server out of the list, deletes its
\* catalog and its selection entry and leaves the other servers, in their
\* order, and the other urls' catalogs, selections, loading flags and requests
\* as they were; removing a url of which the scope holds nothing changes
\* nothing the scope holds; and removing a url a second time returns the state
\* the first removal returned.
C8_RemoveCascadesAndIsIdempotent ==
    /\ \A u \in Urls :
           LET R == Modal_removeMCPServer(Modal, u)
           IN  /\ \A k \in 1..Len(localMCPServers) :
                      localMCPServers[k].url = u
                          => R.localMCPServers = DropAt(localMCPServers, k)
               /\ u \notin DOMAIN R.availableTools
               /\ Others(R.availableTools, u) = Others(availableTools, u)
               /\ R.loadingTools = loadingTools
               /\ R.pendingFetches = pendingFetches
               /\ (u \notin ModalUrls /\ u \notin DOMAIN availableTools)
                      => /\ R.localMCPServers = localMCPServers
                         /\ R.availableTools = availableTools
               /\ Modal_removeMCPServer(R, u) = R
    /\ \A n \in Nodes : \A u \in Urls :
           LET R == Node_removeMcpServer(Node(n), u)
           IN  /\ \A k \in 1..Len(nodeMcpServers[n]) :
                      nodeMcpServers[n][k] = u
                          => R.mcpServers = DropAt(nodeMcpServers[n], k)
               /\ u \notin DOMAIN R.availableTools
               /\ u \notin DOMAIN R.selectedTools
               /\ Others(R.availableTools, u) = Others(nodeAvailableTools[n], u)
               /\ Others(R.selectedTools, u) = Others(nodeSelectedTools[n], u)
               /\ R.loadingTools = nodeLoadingTools[n]
               /\ R.pendingFetches = nodePendingFetches[n]
               /\ (/\ u \notin NodeUrls(n)
                   /\ u \notin DOMAIN nodeAvailableTools[n]
                   /\ u \notin DOMAIN nodeSelectedTools[n])
                      => R = Node(n)
               /\ Node_removeMcpServer(R, u) = R

\* Both scopes after url a was removed from between loaded servers: url b is
\* still listed with its catalog, and nothing of url a is left.
C8_Witness ==
    /\ UrlsOf(localMCPServers) = <<UrlB>>
    /\ CatalogOf(availableTools, UrlB) = <<"x">>
    /\ UrlA \in DOMAIN loadingTools /\ UrlA \notin DOMAIN availableTools
    /\ nodeMcpServers["n1"] = <<UrlB>>
    /\ UrlB \in DOMAIN nodeSelectedTools["n1"]
    /\ UrlA \in DOMAIN nodeLoadingTools["n1"]
    /\ UrlA \notin DOMAIN nodeSelectedTools["n1"]

\* C9: a catalog request that completes with a tool list leaves the url not
\* loading with exactly that list as its catalog, and one that completes with
\* an error or a non-success response leaves the url not loading with an
\* empty catalog.
C9_FetchOutcome ==
    [][/\ \A u \in Urls, which \in {"latest", "stale"}, resp \in Responses :
              FetchSettled(u, which, resp)
                  => /\ ~IsLoading(loadingTools', u)
                     /\ CatalogOf(availableTools', u) = resp.tools
       /\ \A n \in Nodes :
              \A u \in Urls, which \in {"latest", "stale"}, resp \in Responses :
                  NodeFetchSettled(n, u, which, resp)
                      => /\ ~IsLoading(nodeLoadingTools'[n], u)
                         /\ CatalogOf(nodeAvailableTools'[n], u) = resp.tools]_vars

\* C10: no scope has more than one catalog request in flight for a url.
C10_OneFetchPerUrl ==
    /\ \A u \in Urls : InFlight(pendingFetches, u) <= 1
    /\ \A n \in Nodes : \A u \in Urls : InFlight(nodePendingFetches[n], u) <= 1

\* The selection a server list holds for a listed url.
SelectionAt(servers, u) ==
    LET i == CHOOSE k \in 1..Len(servers) : servers[k].url = u
    IN  servers[i].selectedTools

WhichFetch == {"latest", "stale"}

\* C11: the completion of a catalog request leaves every selection entry
\* that exists when it completes as it was: in the dialog the selections of
\* the listed servers, in a node the entries of selectedTools; it may write a
\* selection only for a url that has no entry.
C11_FetchKeepsExistingSelection ==
    /\ \A u \in Urls, which \in WhichFetch, resp \in Responses :
           CanSettle(pendingFetches, u, which)
               => Modal_fetchSettled(Modal, u, which, resp).localMCPServers
                      = localMCPServers
    /\ \A n \in Nodes : \A u \in Urls, which \in WhichFetch, resp \in Responses :
           (/\ CanSettle(nodePendingFetches[n], u, which)
            /\ u \in DOMAIN nodeSelectedTools[n])
               => Node_fetchSettled(Node(n), u, which, resp).selectedTools[u]
                      = nodeSelectedTools[n][u]

\* C12: a server added to the dialog's draft has an empty selection, and no
\* completion of a catalog request changes a selection of the draft; a node's
\* add writes no selection, and a successful completion of a catalog request
\* in a node leaves the url selected with all the tool names of the catalog
\* it returned, in the catalog's order.
C12_SeedingPolicy ==
    /\ \A text \in InputTexts :
           (Trim(text) # <<>> /\ Trim(text) \notin ModalUrls)
               => SelectionAt(Modal_addMCPServer(Modal, text).localMCPServers,
                              Trim(text)) = <<>>
    /\ \A u \in Urls, which \in WhichFetch, resp \in Responses :
           CanSettle(pendingFetches, u, which)
               => \A v \in ModalUrls :
                      SelectionAt(
                          Modal_fetchSettled(Modal, u, which, resp).localMCPServers,
                          v) = SelectionAt(localMCPServers, v)
    /\ \A n \in Nodes :
           /\ \A text \in InputTexts :
                  Node_addMcpServer(Node(n), text).selectedTools
                      = nodeSelectedTools[n]
           /\ \A u \in Urls, which \in WhichFetch, resp \in Responses :
                  (CanSettle(nodePendingFetches[n], u, which) /\ resp.kind = "ok")
                      => LET R == Node_fetchSettled(Node(n), u, which, resp)
                         IN  /\ u \in DOMAIN R.selectedTools
                             /\ R.selectedTools[u] = resp.tools
                             /\ R.availableTools[u] = resp.tools

\* The dialog lists url a, loaded with two tools and nothing selected; the
\* node lists url a, loaded with the same two tools, both selected.
C12_Witness ==
    /\ UrlA \in ModalUrls
    /\ CatalogOf(availableTools, UrlA) = <<"x", "y">>
    /\ ~IsLoading(loadingTools, UrlA) /\ InFlight(pendingFetches, UrlA) = 0
    /\ SelectionAt(localMCPServers, UrlA) = <<>>
    /\ UrlA \in NodeUrls("n1")
    /\ CatalogOf(nodeAvailableTools["n1"], UrlA) = <<"x", "y">>
    /\ UrlA \in DOMAIN nodeSelectedTools["n1"]
    /\ nodeSelectedTools["n1"][UrlA] = <<"x", "y">>

\* toolName is selected in after exactly when it is not in before, and every
\* other tool name is selected in after exactly when it is in before.
Flipped(before, after, toolName) ==
    /\ Includes(after, toolName) <=> ~Includes(before, toolName)
    /\ \A t \in (Tools \cup Range(before) \cup Range(after)) \ {toolName} :
           Includes(after, t) <=> Includes(before, t)

\* C13: the checkbox of a tool flips the membership of that tool name in its
\* server's selection and leaves the other tool names, the other servers'
\* selections, the server list, the catalogs, the loading flags and the
\* requests as they were; for a url that has no catalog no checkbox is
\* rendered, and a toggle of it changes nothing and creates no selection entry.
C13_ToggleFlipsOne ==
    /\ \A u \in Urls, t \in Tools :
           LET R == Modal_toolCheckbox(Modal, u, t)
           IN  /\ Modal_offersTool(Modal, u, t)
                      => /\ UrlsOf(R.localMCPServers) = UrlsOf(localMCPServers)
                         /\ Flipped(SelectionAt(localMCPServers, u),
                                    SelectionAt(R.localMCPServers, u), t)
                         /\ \A v \in ModalUrls \ {u} :
                                SelectionAt(R.localMCPServers, v)
                                    = SelectionAt(localMCPServers, v)
                         /\ R.availableTools = availableTools
                         /\ R.loadingTools = loadingTools
                         /\ R.pendingFetches = pendingFetches
               /\ u \notin DOMAIN availableTools => R = Modal
    /\ \A n \in Nodes : \A u \in Urls, t \in Tools :
           LET R == Node_toolCheckbox(Node(n), u, t)
           IN  /\ Node_offersTool(Node(n), u, t)
                      => /\ u \in DOMAIN R.selectedTools
                         /\ Flipped(CatalogOf(nodeSelectedTools[n], u),
                                    R.selectedTools[u], t)
                         /\ Others(R.selectedTools, u)
                                = Others(nodeSelectedTools[n], u)
                         /\ [R EXCEPT !.selectedTools = nodeSelectedTools[n]]
                                = Node(n)
               /\ u \notin DOMAIN nodeAvailableTools[n] => R = Node(n)

\* In the dialog url a has tool y selected after x was switched on and off,
\* beside url b with its own selection; in the node url a has had x switched
\* off, and url b is listed without a catalog and without a selection entry.
C13_Witness ==
    /\ UrlsOf(localMCPServers) = <<UrlA, UrlB>>
    /\ CatalogOf(availableTools, UrlA) = <<"x", "y">>
    /\ SelectionAt(localMCPServers, UrlA) = <<"y">>
    /\ SelectionAt(localMCPServers, UrlB) = <<"x">>
    /\ nodeMcpServers["n1"] = <<UrlA, UrlB>>
    /\ UrlA \in DOMAIN nodeSelectedTools["n1"]
    /\ nodeSelectedTools["n1"][UrlA] = <<"y">>
    /\ UrlB \notin DOMAIN nodeAvailableTools["n1"]
    /\ UrlB \notin DOMAIN nodeSelectedTools["n1"]

\* C14: selectAll gives the url the tool names of its current catalog as its
\* selection, deselectAll gives it the empty selection; either leaves the
\* server list, the other servers' selections and the catalogs as they were,
\* and applied a second time returns what the first application returned.
C14_SelectAllDeselectAll ==
    \A u \in Urls :
        LET S == Modal_selectAllTools(Modal, u)
            D == Modal_deselectAllTools(Modal, u)
        IN  /\ UrlsOf(S.localMCPServers) = UrlsOf(localMCPServers)
            /\ UrlsOf(D.localMCPServers) = UrlsOf(localMCPServers)
            /\ u \in ModalUrls
                   => /\ SelectionAt(S.localMCPServers, u)
                             = CatalogOf(availableTools, u)
                      /\ SelectionAt(D.localMCPServers, u) = <<>>
            /\ \A v \in ModalUrls \ {u} :
                   /\ SelectionAt(S.localMCPServers, v)
                          = SelectionAt(localMCPServers, v)
                   /\ SelectionAt(D.localMCPServers, v)
                          = SelectionAt(localMCPServers, v)
            /\ S.availableTools = availableTools
            /\ D.availableTools = availableTools
            /\ Modal_selectAllTools(S, u) = S
            /\ Modal_deselectAllTools(D, u) = D

\* Url a with both tools of its catalog selected, url b with its one-tool
\* catalog and nothing selected.
C14_Witness ==
    /\ UrlsOf(localMCPServers) = <<UrlA, UrlB>>
    /\ CatalogOf(availableTools, UrlA) = <<"x", "y">>
    /\ SelectionAt(localMCPServers, UrlA) = <<"x", "y">>
    /\ CatalogOf(availableTools, UrlB) = <<"x">>
    /\ SelectionAt(localMCPServers, UrlB) = <<>>
    /\ ~IsLoading(loadingTools, UrlA) /\ ~IsLoading(loadingTools, UrlB)

\* C15: for a listed url, selectAll and then deselectAll leaves its selection
\* empty, and deselectAll and then selectAll leaves it the tool names of the
\* url's catalog, whatever was selected before.
C15_SelectAllThenDeselectAll ==
    \A u \in ModalUrls :
        /\ SelectionAt(
               Modal_deselectAllTools(Modal_selectAllTools(Modal, u), u)
                   .localMCPServers, u) = <<>>
        /\ SelectionAt(
               Modal_selectAllTools(Modal_deselectAllTools(Modal, u), u)
                   .localMCPServers, u) = CatalogOf(availableTools, u)

\* A listed url whose selection is part of its catalog, so that the two
\* orders give different selections, both different from the present one.
C15_Witness ==
    /\ UrlsOf(localMCPServers) = <<UrlB, UrlA>>
    /\ CatalogOf(availableTools, UrlB) = <<"x", "y">>
    /\ SelectionAt(localMCPServers, UrlB) = <<"y">>
    /\ Modal_showsTools(Modal, UrlB)

\* C16: for every saved selection, every url and every catalog, the effective
\* selection holds only tool names of the catalog, and intersecting it with
\* the same catalog again returns it unchanged; so, whatever the servers
\* offer when a saved node is resolved, the tools resolved for a local server
\* are tool names of that server's catalog.
C16_EffectiveSelectionWithinCatalog ==
    \A n \in Nodes :
        /\ \A u \in Urls, catalog \in Catalogs :
               LET E == effectiveSelection(nodeData[n].selectedTools, u, catalog)
               IN  /\ Range(E) \subseteq Range(catalog)
                   /\ effectiveSelection(Put(nodeData[n].selectedTools, u, E),
                                         u, catalog) = E
        /\ \A catalogs \in [Urls -> Catalogs] :
               \A i \in 1..Len(nodeData[n].mcpServers) :
                   LET entry == resolve(nodeData[n], catalogs)[i]
                   IN  /\ entry.url = nodeData[n].mcpServers[i]
                       /\ Range(entry.tools) \subseteq Range(catalogs[entry.url])

\* A node saved with x and y selected for url a, whose catalog has since been
\* fetched again and holds x only.
C16_Witness ==
    /\ nodeData["n1"].written
    /\ nodeData["n1"].mcpServers = <<UrlA>>
    /\ UrlA \in DOMAIN nodeData["n1"].selectedTools
    /\ nodeData["n1"].selectedTools[UrlA] = <<"x", "y">>
    /\ CatalogOf(nodeAvailableTools["n1"], UrlA) = <<"x">>

\* The shape of GlobalConfig (LMConfigContext.tsx lines 3-16) in a stored text.
IsJsonNames(value) ==
    /\ value.t = "array"
    /\ \A i \in 1..Len(value.a) : value.a[i].t = "string"

IsJsonServer(value) ==
    /\ value.t = "object"
    /\ DOMAIN value.o = {"url", "selectedTools"}
    /\ value.o.url.t = "string"
    /\ IsJsonNames(value.o.selectedTools)

IsJsonLM(value) ==
    \/ value.t = "null"
    \/ /\ value.t = "object"
       /\ DOMAIN value.o = {"provider", "modelName"}
       /\ value.o.provider.t = "string"
       /\ value.o.modelName.t = "string"

WellShaped(value) ==
    /\ value.t = "object"
    /\ DOMAIN value.o = {"lmConfig", "mcpServers"}
    /\ IsJsonLM(value.o.lmConfig)
    /\ value.o.mcpServers.t = "array"
    /\ \A i \in 1..Len(value.o.mcpServers.a) : IsJsonServer(value.o.mcpServers.a[i])

Malformed(blob) == blob.kind # "json" \/ ~WellShaped(blob.value)

\* The stored item is a JSON object whose mcpServers is an array of servers.
HoldsServerList(blob) ==
    /\ blob.kind = "json"
    /\ blob.value.t = "object"
    /\ "mcpServers" \in DOMAIN blob.value.o
    /\ blob.value.o.mcpServers.t = "array"
    /\ \A i \in 1..Len(blob.value.o.mcpServers.a) :
           IsJsonServer(blob.value.o.mcpServers.a[i])

\* C17: a load that finds the stored item missing, not parseable or of
\* another shape than GlobalConfig completes and leaves the global scope
\* empty: no committed server, no server in the draft.
C17_MalformedLoadsEmpty ==
    [][(ProviderMount /\ Malformed(storage))
           => /\ mounted'
              /\ mcpServers' = <<>>
              /\ localMCPServers' = <<>>]_vars

\* The servers a stored text holds, read off its syntax tree.
PersistedServers(blob) ==
    LET list == blob.value.o.mcpServers.a
    IN  [i \in 1..Len(list) |->
            [url |-> list[i].o.url.s,
             selectedTools |-> [j \in 1..Len(list[i].o.selectedTools.a) |->
                                   list[i].o.selectedTools.a[j].s]]]

\* C18: a save of the dialog's draft leaves a stored item whose servers are the draft's servers, url by url in the draft's order with the
\* draft's selected tools, and nothing else; and every step that changes the
\* stored item leaves it holding exactly the committed servers.
C18_SaveOverwrites ==
    /\ [][HandleSaveMCP(TRUE)
              => /\ HoldsServerList(storage')
                 /\ PersistedServers(storage') = localMCPServers
                 /\ mcpServers' = localMCPServers]_vars
    /\ [][storage' # storage
              => /\ HoldsServerList(storage')
                 /\ PersistedServers(storage') = mcpServers']_vars

\* The stored item of an earlier session held url a with tool x; the item now
\* holds url b alone, and the earlier session's lmConfig.
C18_Witness ==
    /\ HoldsServerList(storage)
    /\ PersistedServers(storage) = <<[url |-> UrlB, selectedTools |-> <<>>]>>
    /\ storage.value.o.lmConfig = StringifyLM(SavedLM)
    /\ mcpServers = PersistedServers(storage)

\* C19: every server list the program holds, as draft or as committed list,
\* is what the load reads back from the text that the save writes for it:
\* the same servers in the same order with the same selected tools; and a
\* mount that finds a well-shaped stored item commits exactly its servers.
C19_RoundTrip ==
    /\ [](/\ Load(Stringify(globalLMConfig, localMCPServers)).set
          /\ Load(Stringify(globalLMConfig, localMCPServers)).mcpServers
                 = localMCPServers
          /\ Load(Stringify(globalLMConfig, mcpServers)).mcpServers = mcpServers
          /\ WellShaped(Stringify(NullLM, localMCPServers).value))
    /\ [][(ProviderMount /\ ~Malformed(storage))
              => mcpServers' = PersistedServers(storage)]_vars

\* A new session that has loaded two servers, one with a selected tool, which
\* an earlier session has saved.
C19_Witness ==
    /\ mounted /\ ~isOpen
    /\ availableTools = EmptyMap
    /\ Len(mcpServers) = 2
    /\ \E i \in 1..2 : mcpServers[i].selectedTools = <<"x">>
    /\ \E i \in 1..2 : mcpServers[i].selectedTools = <<>>
    /\ localMCPServers = mcpServers
    /\ storage = Stringify(globalLMConfig, mcpServers)

\* C20: a clear of the global tool scope leaves the draft and the committed
\* list empty and the stored item holding an empty server list.
C20_ClearEmptiesScope ==
    [][HandleClearMCP(TRUE)
           => /\ localMCPServers' = <<>>
              /\ mcpServers' = <<>>
              /\ HoldsServerList(storage')
              /\ storage'.value.o.mcpServers = JArray(<<>>)]_vars

\* After a clear: nothing listed, committed or stored, while the catalogs of
\* the two servers that were listed are still held.
C20_Witness ==
    /\ mounted /\ ~isOpen
    /\ localMCPServers = <<>> /\ mcpServers = <<>>
    /\ HoldsServerList(storage)
    /\ PersistedServers(storage) = <<>>
    /\ DOMAIN availableTools = {UrlA, UrlB}

\* C21: a save or clear whose write to the store fails raises nothing to its
\* caller, leaves the committed state the one the operation intended and the
\* stored item as it was; and the stored item changes only in a save or clear
\* whose own write succeeds, so a failed write is not tried again.
C21_FailedSetNonFatal ==
    /\ [][HandleSaveMCP(FALSE)
              => /\ uncaughtError' = uncaughtError
                 /\ mcpServers' = localMCPServers
                 /\ storage' = storage]_vars
    /\ [][HandleClearMCP(FALSE)
              => /\ uncaughtError' = uncaughtError
                 /\ mcpServers' = <<>>
                 /\ storage' = storage]_vars
    /\ [][storage' # storage
              => \/ HandleSaveMCP(TRUE)
                 \/ HandleClearMCP(TRUE)
                 \/ HandleClearLM(TRUE)
                 \/ \E form \in LMForms : HandleSaveLM(form, TRUE)]_vars

\* The catalogs the servers can offer when a saved node is resolved.
LiveCatalogs == [Urls -> Catalogs]

\* The entries resolve is to return for the local servers of node n's editor.
LocalEntries(n, catalogs) ==
    [i \in 1..Len(nodeMcpServers[n]) |->
        [url   |-> nodeMcpServers[n][i],
         tools |-> effectiveSelection(nodeSelectedTools[n], nodeMcpServers[n][i],
                                      catalogs[nodeMcpServers[n][i]])]]

\* C22: for a node that is saved with useGlobal = true, resolve returns the
\* editor's local servers in their order, each with its effective selection,
\* and behind them the committed global servers of the save in their order,
\* each with its selectedTools as committed, whatever the live catalogs are.
C22_ResolveLocalThenSnapshot ==
    \A n \in Nodes :
        useGlobalMcpServers[n]
            => \A catalogs \in LiveCatalogs :
                   LET R == resolve(Node_dataToSave(Node(n), mcpServers), catalogs)
                       L == Len(nodeMcpServers[n])
                   IN  /\ Len(R) = L + Len(mcpServers)
                       /\ SubSeq(R, 1, L) = LocalEntries(n, catalogs)
                       /\ \A j \in 1..Len(mcpServers) :
                              R[L + j] = [url   |-> mcpServers[j].url,
                                          tools |-> mcpServers[j].selectedTools]

\* A node saved with useGlobal = true: local servers b, a with one tool of a
\* switched off, and a snapshot of two global servers, the first of them
\* with tool y selected.
C22_Witness ==
    /\ nodeData["n1"].written /\ nodeData["n1"].useGlobalMcpServers
    /\ nodeData["n1"].mcpServers = <<UrlB, UrlA>>
    /\ UrlA \in DOMAIN nodeData["n1"].selectedTools
    /\ nodeData["n1"].selectedTools[UrlA] = <<"y">>
    /\ Len(nodeData["n1"].globalMcpServersSnapshot) = 2
    /\ nodeData["n1"].globalMcpServersSnapshot[1]
           = [url |-> UrlB, selectedTools |-> <<"y">>]
    /\ nodeData["n1"] = Node_dataToSave(Node("n1"), mcpServers)

\* The positions of a resolved list that hold url u.
EntriesOf(R, u) == {i \in 1..Len(R) : R[i].url = u}

\* C23: for a node that is saved with useGlobal = true, resolve returns as
\* many entries as there are local servers and committed global servers
\* together; a url has one entry for each list that holds it, so a url that
\* is both a local server and a global server has two separate entries, one
\* among the local entries and one behind them.
C23_ResolveKeepsDuplicates ==
    \A n \in Nodes :
        useGlobalMcpServers[n]
            => \A catalogs \in LiveCatalogs :
                   LET R == resolve(Node_dataToSave(Node(n), mcpServers), catalogs)
                       L == Len(nodeMcpServers[n])
                   IN  /\ Len(R) = L + Len(mcpServers)
                       /\ \A u \in Urls :
                              /\ Cardinality(EntriesOf(R, u))
                                     = Cardinality({i \in 1..L :
                                                       nodeMcpServers[n][i] = u})
                                       + Cardinality(
                                             {j \in 1..Len(mcpServers) :
                                                 mcpServers[j].url = u})
                              /\ (u \in NodeUrls(n)
                                      /\ u \in Range(UrlsOf(mcpServers)))
                                     => \E i \in 1..L, j \in (L + 1)..Len(R) :
                                            R[i].url = u /\ R[j].url = u

\* A saved node whose local servers and snapshot both hold url a, with
\* different tools: resolve has two entries for url a.
C23_Witness ==
    /\ nodeData["n1"].written /\ nodeData["n1"].useGlobalMcpServers
    /\ nodeData["n1"].mcpServers = <<UrlA>>
    /\ UrlA \in DOMAIN nodeData["n1"].selectedTools
    /\ nodeData["n1"].selectedTools[UrlA] = <<"x", "y">>
    /\ nodeData["n1"].globalMcpServersSnapshot
           = <<[url |-> UrlA, selectedTools |-> <<"x">>]>>
    /\ EntriesOf(resolve(nodeData["n1"], [u \in Urls |-> <<"x", "y">>]), UrlA)
           = {1, 2}

\* C24: for a node that is saved with useGlobal = false, resolve returns the
\* entries of the editor's local servers and nothing else, also for node data
\* that holds a snapshot of the committed global servers beside the unset
\* flag; without local servers the result is the empty sequence.
C24_ResolveLocalOnly ==
    \A n \in Nodes :
        ~useGlobalMcpServers[n]
            => \A catalogs \in LiveCatalogs :
                   LET D == Node_dataToSave(Node(n), mcpServers)
                       R == resolve(D, catalogs)
                   IN  /\ ~D.useGlobalMcpServers
                       /\ R = LocalEntries(n, catalogs)
                       /\ nodeMcpServers[n] = <<>> => R = <<>>
                       /\ resolve([D EXCEPT !.globalMcpServersSnapshot =
                                                SnapshotOf(mcpServers)],
                                   catalogs) = R

\* A node saved with useGlobal = false and one local server, while two
\* global servers are committed: resolve returns the one local entry.
C24_Witness ==
    /\ nodeData["n1"].written /\ ~nodeData["n1"].useGlobalMcpServers
    /\ nodeData["n1"].mcpServers = <<UrlB>>
    /\ UrlB \in DOMAIN nodeData["n1"].selectedTools
    /\ nodeData["n1"].selectedTools[UrlB] = <<"x", "y">>
    /\ Len(mcpServers) = 2
    /\ resolve(nodeData["n1"], [u \in Urls |-> <<"x", "y">>])
           = <<[url |-> UrlB, tools |-> <<"x", "y">>]>>

\* C25: when a catalog request of a listed local server of a node completes
\* with an error or a non-success response, the server is left not loading
\* with an empty catalog, its effective selection is empty, and resolve of the
\* node as it would be saved then has an entry for the server with no tools.
C25_FailedFetchResolvesEmpty ==
    [][\A n \in Nodes :
           \A u \in Urls, which \in WhichFetch, resp \in Responses :
               (/\ NodeFetchSettled(n, u, which, resp)
                /\ resp.kind # "ok"
                /\ u \in NodeUrls(n))
                   => /\ ~IsLoading(nodeLoadingTools'[n], u)
                      /\ CatalogOf(nodeAvailableTools'[n], u) = <<>>
                      /\ effectiveSelection(
                             nodeSelectedTools'[n], u,
                             CatalogOf(nodeAvailableTools'[n], u)) = <<>>
                      /\ \E i \in 1..Len(nodeMcpServers'[n]) :
                             resolve(Node_dataToSave(Node(n), mcpServers)',
                                     nodeAvailableTools'[n])[i]
                                 = [url |-> u, tools |-> <<>>]]_vars

\* C26: in every reachable state every url that has a catalog entry in the
\* dialog is a server of the draft, and every url that has a catalog entry or
\* a selection entry in a node's editor is a local server of that node.
C26_CascadeForGood ==
    /\ DOMAIN availableTools \subseteq ModalUrls
    /\ \A n \in Nodes :
           /\ DOMAIN nodeAvailableTools[n] \subseteq NodeUrls(n)
           /\ DOMAIN nodeSelectedTools[n] \subseteq NodeUrls(n)

\* C27: the completion of a catalog request that is not the most recently
\* started one for its url is discarded: it leaves the catalogs of its scope,
\* and in a node the selections, as they were, so that the url's catalog is
\* decided by the most recently started request alone.
C27_StaleResultDiscarded ==
    [][/\ \A u \in Urls, resp \in Responses :
              FetchSettled(u, "stale", resp) => availableTools' = availableTools
       /\ \A n \in Nodes : \A u \in Urls, resp \in Responses :
              NodeFetchSettled(n, u, "stale", resp)
                  => /\ nodeAvailableTools'[n] = nodeAvailableTools[n]
                     /\ nodeSelectedTools'[n] = nodeSelectedTools[n]]_vars

\* C28: the completion of a catalog request for a url leaves the server list
\* of its scope and every other url's loading flag, catalog, selection and
\* requests as they were; and of two requests for different urls, completing
\* one and then the other gives the state that completing them in the other
\* order gives.
C28_FetchCompletionIsLocal ==
    /\ \A u \in Urls, which \in WhichFetch, resp \in Responses :
           CanSettle(pendingFetches, u, which)
               => LET R == Modal_fetchSettled(Modal, u, which, resp)
                  IN  /\ R.localMCPServers = localMCPServers
                      /\ Others(R.availableTools, u) = Others(availableTools, u)
                      /\ Others(R.loadingTools, u) = Others(loadingTools, u)
                      /\ \A v \in Urls \ {u} :
                             R.pendingFetches[v] = pendingFetches[v]
                      /\ \A v \in Urls \ {u}, which2 \in WhichFetch,
                                resp2 \in Responses :
                             CanSettle(pendingFetches, v, which2)
                                 => Modal_fetchSettled(R, v, which2, resp2)
                                        = Modal_fetchSettled(
                                              Modal_fetchSettled(
                                                  Modal, v, which2, resp2),
                                              u, which, resp)
    /\ \A n \in Nodes : \A u \in Urls, which \in WhichFetch, resp \in Responses :
           CanSettle(nodePendingFetches[n], u, which)
               => LET R == Node_fetchSettled(Node(n), u, which, resp)
                  IN  /\ R.mcpServers = nodeMcpServers[n]
                      /\ Others(R.availableTools, u)
                             = Others(nodeAvailableTools[n], u)
                      /\ Others(R.selectedTools, u)
                             = Others(nodeSelectedTools[n], u)
                      /\ Others(R.loadingTools, u)
                             = Others(nodeLoadingTools[n], u)
                      /\ \A v \in Urls \ {u} :
                             R.pendingFetches[v] = nodePendingFetches[n][v]
                      /\ \A v \in Urls \ {u}, which2 \in WhichFetch,
                                resp2 \in Responses :
                             CanSettle(nodePendingFetches[n], v, which2)
                                 => Node_fetchSettled(R, v, which2, resp2)
                                        = Node_fetchSettled(
                                              Node_fetchSettled(
                                                  Node(n), v, which2, resp2),
                                              u, which, resp)

\* In both scopes the request of url a has completed with two tools while
\* the request of url b, started before it completed, is still pending.
C28_Witness ==
    /\ UrlsOf(localMCPServers) = <<UrlB, UrlA>>
    /\ CatalogOf(availableTools, UrlA) = <<"x", "y">>
    /\ ~IsLoading(loadingTools, UrlA)
    /\ IsLoading(loadingTools, UrlB) /\ pendingFetches[UrlB].latest
    /\ nodeMcpServers["n1"] = <<UrlB, UrlA>>
    /\ CatalogOf(nodeAvailableTools["n1"], UrlA) = <<"x", "y">>
    /\ CatalogOf(nodeSelectedTools["n1"], UrlA) = <<"x", "y">>
    /\ IsLoading(nodeLoadingTools["n1"], UrlB)
    /\ nodePendingFetches["n1"][UrlB].latest
    /\ UrlB \notin DOMAIN nodeSelectedTools["n1"]

\* C29: once a catalog request of a url has completed in the dialog, with a
\* catalog or with a failure, a new request for that url starts only in a
\* step in which the user adds that url; no other step, such as a save of the
\* configuration or the arrival of the provider status, starts one.
C29_FetchOnce ==
    [][\A u \in Urls :
           (/\ u \in DOMAIN loadingTools
            /\ ~loadingTools[u]
            /\ InFlight(pendingFetches', u) > InFlight(pendingFetches, u))
               => \E text \in InputTexts : Trim(text) = u /\ AddMCPServer(text)]_vars

\* C30: in every reachable state, for every server that the open dialog or a
\* node's editor shows with a loaded, non-empty catalog, every tool name of
\* the server's selection is a tool name of that catalog.
C30_DisplayedSelectionWithinCatalog ==
    /\ isOpen
           => \A u \in ModalUrls :
                  Modal_hasTools(Modal, u)
                      => Range(SelectionAt(localMCPServers, u))
                             \subseteq Range(availableTools[u])
    /\ \A n \in Nodes : \A u \in NodeUrls(n) :
           (u \in DOMAIN nodeAvailableTools[n]
                /\ Len(nodeAvailableTools[n][u]) > 0)
               => Range(CatalogOf(nodeSelectedTools[n], u))
                      \subseteq Range(nodeAvailableTools[n][u])

\* A step of one of the dialog's draft operations.
DraftOperation ==
    \/ \E text \in InputTexts : AddMCPServer(text)
    \/ \E u \in Urls : RemoveMCPServer(u)
    \/ \E u \in Urls, t \in Tools : ToggleToolSelection(u, t)
    \/ \E u \in Urls : SelectAllTools(u)
    \/ \E u \in Urls : DeselectAllTools(u)

\* C31: add, remove, toggle, selectAll and deselectAll in the global dialog,
\* and Cancel, leave the committed global configuration and the stored item
\* as they were; the committed servers change only in a Save or Clear of the
\* servers or in the startup load, and the stored item only in a Save or
\* Clear.
C31_DraftUntilCommit ==
    /\ [][(DraftOperation \/ CancelModal)
              => UNCHANGED <<mcpServers, globalLMConfig, storage>>]_vars
    /\ [][mcpServers' # mcpServers
              => \/ \E writeOk \in BOOLEAN : HandleSaveMCP(writeOk)
                 \/ \E writeOk \in BOOLEAN : HandleClearMCP(writeOk)
                 \/ ProviderMount]_vars
    /\ [][storage' # storage
              => \/ HandleSaveMCP(TRUE)
                 \/ HandleClearMCP(TRUE)]_vars

\* The dialog was closed with Cancel on a draft that differs from the
\* committed servers in a server and in a selection: committed servers and
\* stored item are those of the earlier session.
C31_Witness ==
    /\ mounted /\ ~isOpen
    /\ UrlsOf(localMCPServers) = <<UrlA, UrlB>>
    /\ SelectionAt(localMCPServers, UrlA) = <<"x", "y">>
    /\ mcpServers = <<[url |-> UrlA, selectedTools |-> <<"x">>]>>
    /\ storage = Stringify(NullLM, mcpServers)

\* C32: an add compares the url as entered with the listed urls and stores
\* it as entered: an entered text that differs from a listed url only by
\* whitespace before or after it is appended to the server list as a server
\* of its own, with the url as it was typed.
C32_DuplicateTestAsEntered ==
    /\ \A text \in InputTexts :
           (Trim(text) \in ModalUrls /\ text # Trim(text))
               => Modal_addMCPServer(Modal, text).localMCPServers
                      = Append(localMCPServers,
                               [url |-> text, selectedTools |-> <<>>])
    /\ \A n \in Nodes : \A text \in InputTexts :
           (Trim(text) \in NodeUrls(n) /\ text # Trim(text))
               => Node_addMcpServer(Node(n), text).mcpServers
                      = Append(nodeMcpServers[n], text)

\* C32 as amended: an add compares the entered url without its leading and
\* trailing whitespace with the listed urls, by equality: if that url is
\* listed the add changes nothing, otherwise that url, not the text as
\* entered, is appended; so every listed url is free of leading and trailing
\* whitespace.
C32_DuplicateTestTrimmed ==
    /\ \A u \in ModalUrls : Trim(u) = u
    /\ \A text \in InputTexts :
           Trim(text) # <<>>
               => Modal_addMCPServer(Modal, text).localMCPServers
                      = IF Trim(text) \in ModalUrls
                        THEN localMCPServers
                        ELSE Append(localMCPServers,
                                    [url |-> Trim(text), selectedTools |-> <<>>])
    /\ \A n \in Nodes :
           /\ \A u \in NodeUrls(n) : Trim(u) = u
           /\ \A text \in InputTexts :
                  Trim(text) # <<>>
                      => Node_addMcpServer(Node(n), text).mcpServers
                             = IF Trim(text) \in NodeUrls(n)
                               THEN nodeMcpServers[n]
                               ELSE Append(nodeMcpServers[n], Trim(text))

\* Both scopes list url a and not url b: an add of url a with a space before
\* it meets its duplicate.
C32_Witness ==
    /\ ModalUrls = {UrlA}
    /\ NodeUrls("n1") = {UrlA}
    /\ <<" ", "a">> \in InputTexts
    /\ Modal_addMCPServer(Modal, <<" ", "a">>) = Modal
    /\ Node_addMcpServer(Node("n1"), <<"a", " ">>) = Node("n1")

\* C33: in every reachable state the loading flag of a url is set in a scope
\* exactly when at least one catalog request for that url is in flight in
\* that scope.
C33_LoadingIffInFlight ==
    /\ \A u \in Urls :
           IsLoading(loadingTools, u) <=> InFlight(pendingFetches, u) > 0
    /\ \A n \in Nodes : \A u \in Urls :
           IsLoading(nodeLoadingTools[n], u)
               <=> InFlight(nodePendingFetches[n], u) > 0

\* C36: the draft server list of the global dialog, with its selections,
\* changes only in a draft operation, in a Save or Clear of the servers, or
\* in the startup load; a save or clear of the language model and the
\* completion of a provider-status refresh leave it as it was.
C36_DraftKeptByOtherUpdates ==
    /\ [][localMCPServers' # localMCPServers
              => \/ DraftOperation
                 \/ \E writeOk \in BOOLEAN : HandleSaveMCP(writeOk)
                 \/ \E writeOk \in BOOLEAN : HandleClearMCP(writeOk)
                 \/ ProviderMount]_vars
    /\ [][(\/ \E form \in LMForms, writeOk \in BOOLEAN : HandleSaveLM(form, writeOk)
           \/ \E ok \in BOOLEAN : RefreshSettled(ok))
              => localMCPServers' = localMCPServers]_vars

\* The stored item reads back as the committed configuration.
BlobAgrees ==
    /\ Load(storage).lmConfig = globalLMConfig
    /\ Load(storage).mcpServers = mcpServers

\* C35: after the startup load and after every Save or Clear of the language
\* model or of the servers whose write succeeds, loading the stored item
\* gives the committed language model and the committed server list.
C35_BlobAgreesWithCommitted ==
    [][(\/ ProviderMount
        \/ \E form \in LMForms : HandleSaveLM(form, TRUE)
        \/ HandleSaveMCP(TRUE)
        \/ HandleClearLM(TRUE)
        \/ HandleClearMCP(TRUE))
           => BlobAgrees']_vars

\* A language model and a server with two selected tools were both saved in
\* this session, and the stored item holds both.
C35_Witness ==
    /\ mounted
    /\ globalLMConfig = [provider |-> "openai", modelName |-> <<"openai", "/", "m">>]
    /\ UrlB \in Range(UrlsOf(mcpServers))
    /\ SelectionAt(mcpServers, UrlB) = <<"x", "y">>
    /\ storage = Stringify(globalLMConfig, mcpServers)
    /\ BlobAgrees

\* C37: the saved data of a node changes only in a Save of that node; a step
\* that changes an editor's draft, which every draft edit and every
\* completion of a catalog request is, leaves every node's saved data as it
\* was, and a Save of one node leaves the saved data of every other node as
\* it was.
C37_SavedDataChangesOnlyOnSave ==
    /\ [][\A n \in Nodes : nodeData'[n] # nodeData[n] => NodeHandleSave(n)]_vars
    /\ [][nodeDraftVars' # nodeDraftVars => nodeData' = nodeData]_vars
    /\ [][\A n \in Nodes :
              NodeHandleSave(n)
                  => \A m \in Nodes \ {n} : nodeData'[m] = nodeData[m]]_vars

\* Both nodes are saved, with different data.  Node n1 was saved while the
\* request for its server was in flight: the request has completed since and
\* has selected both tools in the draft, and the saved data has no selection
\* for the server.
C37_Witness ==
    /\ nodeData["n1"].written /\ nodeData["n2"].written
    /\ nodeData["n1"] # nodeData["n2"]
    /\ nodeData["n1"].mcpServers = <<UrlA>>
    /\ UrlA \notin DOMAIN nodeData["n1"].selectedTools
    /\ UrlA \in DOMAIN nodeSelectedTools["n1"]
    /\ nodeSelectedTools["n1"][UrlA] = <<"x", "y">>
    /\ nodeData["n2"].useGlobalMcpServers
    /\ ~useGlobalMcpServers["n2"]

\* The scopes as they would be with no request loading.
ModalIdle == [Modal EXCEPT !.loadingTools = [k \in DOMAIN @ |-> FALSE]]
NodeIdle(n) == [Node(n) EXCEPT !.loadingTools = [k \in DOMAIN @ |-> FALSE]]

\* Loading takes no operation away: add and remove do to the server list
\* what they would do with nothing loading, and every tool checkbox that
\* would be rendered with nothing loading is rendered (in the dialog, while
\* it is open).
NothingBlockedByLoading ==
    /\ \A text \in InputTexts :
           Modal_addMCPServer(Modal, text).localMCPServers
               = Modal_addMCPServer(ModalIdle, text).localMCPServers
    /\ \A u \in Urls :
           Modal_removeMCPServer(Modal, u).localMCPServers
               = Modal_removeMCPServer(ModalIdle, u).localMCPServers
    /\ isOpen =>
           \A u \in Urls, t \in Tools :
               Modal_offersTool(ModalIdle, u, t) => Modal_offersTool(Modal, u, t)
    /\ \A n \in Nodes :
           /\ \A text \in InputTexts :
                  Node_addMcpServer(Node(n), text).mcpServers
                      = Node_addMcpServer(NodeIdle(n), text).mcpServers
           /\ \A u \in Urls :
                  Node_removeMcpServer(Node(n), u).mcpServers
                      = Node_removeMcpServer(NodeIdle(n), u).mcpServers
           /\ \A u \in Urls, t \in Tools :
                  Node_offersTool(NodeIdle(n), u, t) => Node_offersTool(Node(n), u, t)

\* C34: a url that is loading in a scope is not loading at some later time,
\* however its request ends, given that the transport answers every request;
\* and in every state the operations of the user are available as they would
\* be with nothing loading.
C34_LoadingEndsAndBlocksNothing ==
    /\ \A u \in Urls :
           IsLoading(loadingTools, u) ~> ~IsLoading(loadingTools, u)
    /\ \A n \in Nodes : \A u \in Urls :
           IsLoading(nodeLoadingTools[n], u) ~> ~IsLoading(nodeLoadingTools[n], u)
    /\ []NothingBlockedByLoading

====
